---- MODULE Spec2Model ----
(***************************************************************************)
(* The Manchester Baby emulator (baby_emulator): the execution engine of   *)
(* src/core/mod.rs and the instruction decoding of                         *)
(* src/core/instructions/mod.rs, in the default build configuration        *)
(* (WORD = i32, INSTR_LEN = 16).                                           *)
(*                                                                         *)
(* A BabyModel is a record [main_store, accumulator, instruction_address,  *)
(* instruction].  Every instruction method is an operator from the old     *)
(* model to the new one.  Rust's integer `+`, `-` and `neg` panic on       *)
(* overflow when the build has overflow checks (the dev/test profile) and  *)
(* wrap otherwise (the release profile); the variable overflow_checks is   *)
(* the profile of the build under consideration.  An array index outside   *)
(* the array panics in every profile.                                      *)
(***************************************************************************)
EXTENDS Integers, FiniteSets, Sequences, TLC

VARIABLES main_store, accumulator, instruction_address, instruction,
          overflow_checks, outcome, prev, steps, first, run,
          codec_in, codec_out, asm_lines, link_out, image,
          parse_in, parse_out

vars == <<main_store, accumulator, instruction_address, instruction,
          overflow_checks, outcome, prev, steps, first, run,
          codec_in, codec_out, asm_lines, link_out, image,
          parse_in, parse_out>>

(***************************************************************************)
(* Program constants.                                                      *)
(***************************************************************************)
MEMORY_WORDS == 32

INSTR_LEN == 16

\* 0xFFFF >> (16 - INSTR_LEN)
INSTR_MASK == 65535 \div (2 ^ (16 - INSTR_LEN))

\* WORD = i32
WORD_MAX == 2147483647

WORD_MIN == -WORD_MAX - 1

U16_MAX == 65535

(***************************************************************************)
(* Bounds of the model.                                                    *)
(***************************************************************************)
\* the number of execute calls made on one machine
MaxSteps == 3

(***************************************************************************)
(* Integer conversions and operators of the source, by what they do.       *)
(***************************************************************************)
\* `x as u16` of a signed word or of a u16: the low 16 bits
AsU16(x) == x % (U16_MAX + 1)

\* `x & 0x1F` on a two's complement integer: the low 5 bits
And1F(x) == x % 32

\* `x & mask` for a mask of the form 2^k - 1
AndMask(x, mask) == x % (mask + 1)

\* `a << n`
ShiftLeft(a, n) == a * (2 ^ n)

\* `a | b` on non-negative integers, bit by bit
RECURSIVE BitOr(_, _)
BitOr(a, b) ==
    IF a = 0 THEN b
    ELSE IF b = 0 THEN a
    ELSE (IF a % 2 = 1 \/ b % 2 = 1 THEN 1 ELSE 0)
         + 2 * BitOr(a \div 2, b \div 2)

\* u16 `a + b`: the sum leaves the u16 range
u16_add_overflows(a, b) == a + b > U16_MAX

\* u16 `a + b` as the release profile computes it
u16_wrapping_add(a, b) == (a + b) % (U16_MAX + 1)

\* WORD `value.neg()`: the negation leaves the word range
neg_overflows(value) == value = WORD_MIN

\* WORD `value.neg()` as the release profile computes it
wrapping_neg(value) == IF value = WORD_MIN THEN WORD_MIN ELSE -value

\* WORD `a - b`: the difference leaves the word range
sub_overflows(a, b) ==
    \/ b > 0 /\ a < WORD_MIN + b
    \/ b < 0 /\ a > WORD_MAX + b

\* WORD `a - b` as the release profile computes it (a - b modulo 2^32,
\* written so that no intermediate value leaves the 32-bit range)
wrapping_sub(a, b) ==
    IF b > 0 /\ a < WORD_MIN + b
        THEN (a - WORD_MIN) + (WORD_MAX - b) + 1
    ELSE IF b < 0 /\ a > WORD_MAX + b
        THEN (a - WORD_MAX) + (WORD_MIN - b) - 1
    ELSE a - b

\* what a method evaluates to when the thread panics
Panic(why) == [panic |-> why]

IsPanic(r) == "panic" \in DOMAIN r

\* `main_store[i]` is within the array
InBounds(store, i) == i \in DOMAIN store

(***************************************************************************)
(* BabyInstruction: decoding.                                              *)
(***************************************************************************)
\* from_number taking the operand from the low 13 bits (bits 0..12)
from_number_13_bit_operand(value) ==
    LET opcode  == value \div 8192
        operand == value % 8192
    IN  CASE opcode = 0 -> [op |-> "Jump", operand |-> operand]
          [] opcode = 4 -> [op |-> "RelativeJump", operand |-> operand]
          [] opcode = 2 -> [op |-> "Negate", operand |-> operand]
          [] opcode = 6 -> [op |-> "Store", operand |-> operand]
          [] opcode = 1 \/ opcode = 5 -> [op |-> "Subtract", operand |-> operand]
          [] opcode = 3 -> [op |-> "SkipNextIfNegative"]
          [] OTHER -> [op |-> "Stop"]

\* from_number leaving the unlisted pattern 101 undecoded, as a data word
from_number_101_is_data(value) ==
    LET opcode  == value \div 8192
        operand == And1F(value)
    IN  CASE opcode = 0 -> [op |-> "Jump", operand |-> operand]
          [] opcode = 4 -> [op |-> "RelativeJump", operand |-> operand]
          [] opcode = 2 -> [op |-> "Negate", operand |-> operand]
          [] opcode = 6 -> [op |-> "Store", operand |-> operand]
          [] opcode = 1 -> [op |-> "Subtract", operand |-> operand]
          [] opcode = 5 -> [op |-> "AbsoluteValue", value |-> value]
          [] opcode = 3 -> [op |-> "SkipNextIfNegative"]
          [] OTHER -> [op |-> "Stop"]

from_number(value) ==
    LET opcode  == value \div 8192
        operand == And1F(value)
    IN  CASE opcode = 0 -> [op |-> "Jump", operand |-> operand]
          [] opcode = 4 -> [op |-> "RelativeJump", operand |-> operand]
          [] opcode = 2 -> [op |-> "Negate", operand |-> operand]
          [] opcode = 6 -> [op |-> "Store", operand |-> operand]
          [] opcode = 1 \/ opcode = 5 -> [op |-> "Subtract", operand |-> operand]
          [] opcode = 3 -> [op |-> "SkipNextIfNegative"]
          [] OTHER -> [op |-> "Stop"]

\* get_operand without the `& 0x1F`
get_operand_unmasked(instr) ==
    CASE instr.op \in {"Jump", "RelativeJump", "Negate", "Store", "Subtract"}
            -> instr.operand
      [] OTHER -> 0

get_operand(instr) ==
    CASE instr.op = "Jump" -> And1F(instr.operand)
      [] instr.op = "RelativeJump" -> And1F(instr.operand)
      [] instr.op = "Negate" -> And1F(instr.operand)
      [] instr.op = "Store" -> And1F(instr.operand)
      [] instr.op = "Subtract" -> And1F(instr.operand)
      [] instr.op = "SkipNextIfNegative" -> 0
      [] instr.op = "Stop" -> 0
      [] instr.op = "AbsoluteValue" -> 0

\* to_number writing the opcode 101 for Subtract where its operand has bit 0
\* set (no single fixed pattern)
to_number_two_patterns(instr) ==
    CASE instr.op = "Jump" -> BitOr(ShiftLeft(0, 13), And1F(instr.operand))
      [] instr.op = "RelativeJump" -> BitOr(ShiftLeft(4, 13), And1F(instr.operand))
      [] instr.op = "Negate" -> BitOr(ShiftLeft(2, 13), And1F(instr.operand))
      [] instr.op = "Store" -> BitOr(ShiftLeft(6, 13), And1F(instr.operand))
      [] instr.op = "Subtract" ->
            BitOr(ShiftLeft(IF instr.operand % 2 = 1 THEN 5 ELSE 1, 13),
                  And1F(instr.operand))
      [] instr.op = "SkipNextIfNegative" -> ShiftLeft(3, 13)
      [] instr.op = "Stop" -> ShiftLeft(7, 13)
      [] instr.op = "AbsoluteValue" -> instr.value

\* to_number packing the operand without the `& 0x1F`
to_number_unmasked(instr) ==
    CASE instr.op = "Jump" -> BitOr(ShiftLeft(0, 13), instr.operand)
      [] instr.op = "RelativeJump" -> BitOr(ShiftLeft(4, 13), instr.operand)
      [] instr.op = "Negate" -> BitOr(ShiftLeft(2, 13), instr.operand)
      [] instr.op = "Store" -> BitOr(ShiftLeft(6, 13), instr.operand)
      [] instr.op = "Subtract" -> BitOr(ShiftLeft(1, 13), instr.operand)
      [] instr.op = "SkipNextIfNegative" -> ShiftLeft(3, 13)
      [] instr.op = "Stop" -> ShiftLeft(7, 13)
      [] instr.op = "AbsoluteValue" -> instr.value

\* to_number with the opcode bits written in the opposite order
to_number_reversed_opcodes(instr) ==
    CASE instr.op = "Jump" -> BitOr(ShiftLeft(0, 13), And1F(instr.operand))
      [] instr.op = "RelativeJump" -> BitOr(ShiftLeft(1, 13), And1F(instr.operand))
      [] instr.op = "Negate" -> BitOr(ShiftLeft(2, 13), And1F(instr.operand))
      [] instr.op = "Store" -> BitOr(ShiftLeft(3, 13), And1F(instr.operand))
      [] instr.op = "Subtract" -> BitOr(ShiftLeft(4, 13), And1F(instr.operand))
      [] instr.op = "SkipNextIfNegative" -> ShiftLeft(6, 13)
      [] instr.op = "Stop" -> ShiftLeft(7, 13)
      [] instr.op = "AbsoluteValue" -> instr.value

to_number(instr) ==
    CASE instr.op = "Jump" -> BitOr(ShiftLeft(0, 13), And1F(instr.operand))
      [] instr.op = "RelativeJump" -> BitOr(ShiftLeft(4, 13), And1F(instr.operand))
      [] instr.op = "Negate" -> BitOr(ShiftLeft(2, 13), And1F(instr.operand))
      [] instr.op = "Store" -> BitOr(ShiftLeft(6, 13), And1F(instr.operand))
      [] instr.op = "Subtract" -> BitOr(ShiftLeft(1, 13), And1F(instr.operand))
      [] instr.op = "SkipNextIfNegative" -> ShiftLeft(3, 13)
      [] instr.op = "Stop" -> ShiftLeft(7, 13)
      [] instr.op = "AbsoluteValue" -> instr.value

\* to_numbers reading instructions.get(i) for the 1-based i of the array
to_numbers_from_second(instructions) ==
    [i \in 0..(MEMORY_WORDS - 1) |->
        IF i + 2 <= Len(instructions) THEN to_number(instructions[i + 2])
        ELSE 0]

\* the array whose entry i is to_number of the (i+1)-th instruction of the
\* sequence, 0 where the sequence has none
to_numbers(instructions) ==
    [i \in 0..(MEMORY_WORDS - 1) |->
        IF i + 1 <= Len(instructions) THEN to_number(instructions[i + 1])
        ELSE 0]

(***************************************************************************)
(* BabyModel: construction.                                                *)
(***************************************************************************)
BabyModel(store, acc, address, instr) ==
    [main_store |-> store, accumulator |-> acc,
     instruction_address |-> address, instruction |-> instr]

new == BabyModel([a \in 0..(MEMORY_WORDS - 1) |-> 0], 0, 0, 0)

\* new_with_program without the `as u16` of the first word
new_with_program_whole_word(store) == BabyModel(store, 0, 0, store[0])

new_with_program(store) == BabyModel(store, 0, 0, AsU16(store[0]))

new_example_program ==
    LET instrs == << [op |-> "Negate", operand |-> 5],
                     [op |-> "Subtract", operand |-> 5],
                     [op |-> "Store", operand |-> 6],
                     [op |-> "Negate", operand |-> 6],
                     [op |-> "Stop"],
                     [op |-> "AbsoluteValue", value |-> -5] >>
        store  == to_numbers(instrs)
    IN  BabyModel(store, 0, 0, AsU16(store[0]))

(***************************************************************************)
(* BabyModel: the instruction methods.  Each evaluates to the new model,   *)
(* or to Panic(..) where the source panics.                                *)
(***************************************************************************)
\* the fetch that ends every method: the model with the instruction at
\* instruction_address loaded into the instruction register
fetch(store, acc, address) ==
    IF ~InBounds(store, address) THEN Panic("index")
    ELSE BabyModel(store, acc, address,
                   AndMask(AsU16(store[address]), INSTR_MASK))

\* jump without the `& 0x1F`
jump_unmasked(self, address) ==
    fetch(self.main_store, self.accumulator, AsU16(address))

\* jump stepping on from the target before the fetch, as the other
\* instructions step on from the current address
jump_then_increments(self, address) ==
    fetch(self.main_store, self.accumulator,
          And1F(u16_wrapping_add(And1F(AsU16(address)), 1)))

jump(self, address) ==
    fetch(self.main_store, self.accumulator, And1F(AsU16(address)))

\* relative_jump without the `& 0x1F`
relative_jump_unmasked(self, offset) ==
    IF u16_add_overflows(self.instruction_address, AsU16(offset))
       /\ overflow_checks
        THEN Panic("overflow")
    ELSE fetch(self.main_store, self.accumulator,
               u16_wrapping_add(self.instruction_address, AsU16(offset)))

relative_jump(self, offset) ==
    IF u16_add_overflows(self.instruction_address, AsU16(offset))
       /\ overflow_checks
        THEN Panic("overflow")
    ELSE fetch(self.main_store, self.accumulator,
               And1F(u16_wrapping_add(self.instruction_address, AsU16(offset))))

negate(self, value) ==
    IF u16_add_overflows(self.instruction_address, 1) /\ overflow_checks
        THEN Panic("overflow")
    ELSE IF neg_overflows(value) /\ overflow_checks
        THEN Panic("overflow")
    ELSE fetch(self.main_store, wrapping_neg(value),
               And1F(u16_wrapping_add(self.instruction_address, 1)))

\* store fetching the next instruction from the memory as it was before
\* the write
store_stale_fetch(self, address) ==
    LET target == And1F(And1F(address))
        next   == And1F(u16_wrapping_add(self.instruction_address, 1))
    IN  BabyModel([self.main_store EXCEPT ![target] = self.accumulator],
                  self.accumulator, next,
                  AndMask(AsU16(self.main_store[next]), INSTR_MASK))

store(self, address) ==
    LET target == And1F(And1F(address))
    IN  IF ~InBounds(self.main_store, target) THEN Panic("index")
        ELSE IF u16_add_overflows(self.instruction_address, 1) /\ overflow_checks
            THEN Panic("overflow")
        ELSE fetch([self.main_store EXCEPT ![target] = self.accumulator],
                   self.accumulator,
                   And1F(u16_wrapping_add(self.instruction_address, 1)))

subtract(self, value) ==
    IF u16_add_overflows(self.instruction_address, 1) /\ overflow_checks
        THEN Panic("overflow")
    ELSE IF sub_overflows(self.accumulator, value) /\ overflow_checks
        THEN Panic("overflow")
    ELSE fetch(self.main_store, wrapping_sub(self.accumulator, value),
               And1F(u16_wrapping_add(self.instruction_address, 1)))

\* test skipping when the accumulator is zero as well
test_skips_on_zero(self) ==
    LET by == IF self.accumulator <= 0 THEN 2 ELSE 1
    IN  fetch(self.main_store, self.accumulator,
              And1F(u16_wrapping_add(self.instruction_address, by)))

test(self) ==
    LET by == IF self.accumulator < 0 THEN 2 ELSE 1
    IN  IF u16_add_overflows(self.instruction_address, by) /\ overflow_checks
            THEN Panic("overflow")
        ELSE fetch(self.main_store, self.accumulator,
                   And1F(u16_wrapping_add(self.instruction_address, by)))

(***************************************************************************)
(* BabyModel: execute.  An InstrResult is [tag |-> "Ok", model |-> m] or   *)
(* [tag |-> "Err", err |-> [kind |-> "Stop", at |-> a]]; a panic of the    *)
(* thread is [tag |-> "Panic", why |-> w].                                 *)
(***************************************************************************)
\* dispatch_instruction reporting Stop at the address after the instruction
dispatch_instruction_stop_after(self, instr, operand_value) ==
    IF instr.op = "Stop"
        THEN [tag |-> "Err",
              err |-> [kind |-> "Stop",
                       at |-> And1F(self.instruction_address + 1)]]
    ELSE LET res ==
                CASE instr.op = "Jump" -> jump(self, operand_value)
                  [] instr.op = "RelativeJump" -> relative_jump(self, operand_value)
                  [] instr.op = "Negate" -> negate(self, operand_value)
                  [] instr.op = "Store" -> store(self, operand_value)
                  [] instr.op = "Subtract" -> subtract(self, operand_value)
                  [] instr.op = "SkipNextIfNegative" -> test(self)
                  [] OTHER -> self
         IN  IF IsPanic(res) THEN [tag |-> "Panic", why |-> res.panic]
             ELSE [tag |-> "Ok", model |-> res]

\* dispatch_instruction handing the methods the operand of the instruction
\* in place of the dereferenced value
dispatch_instruction_embedded_operand(self, instr, operand_value) ==
    IF instr.op = "Stop"
        THEN [tag |-> "Err",
              err |-> [kind |-> "Stop", at |-> self.instruction_address]]
    ELSE LET res ==
                CASE instr.op = "Jump" -> jump(self, instr.operand)
                  [] instr.op = "RelativeJump" -> relative_jump(self, instr.operand)
                  [] instr.op = "Negate" -> negate(self, instr.operand)
                  [] instr.op = "Store" -> store(self, instr.operand)
                  [] instr.op = "Subtract" -> subtract(self, instr.operand)
                  [] instr.op = "SkipNextIfNegative" -> test(self)
                  [] OTHER -> self
         IN  IF IsPanic(res) THEN [tag |-> "Panic", why |-> res.panic]
             ELSE [tag |-> "Ok", model |-> res]

dispatch_instruction(self, instr, operand_value) ==
    IF instr.op = "Stop"
        THEN [tag |-> "Err",
              err |-> [kind |-> "Stop", at |-> self.instruction_address]]
    ELSE LET res ==
                CASE instr.op = "Jump" -> jump(self, operand_value)
                  [] instr.op = "RelativeJump" -> relative_jump(self, operand_value)
                  [] instr.op = "Negate" -> negate(self, operand_value)
                  [] instr.op = "Store" -> store(self, operand_value)
                  [] instr.op = "Subtract" -> subtract(self, operand_value)
                  [] instr.op = "SkipNextIfNegative" -> test(self)
                  [] OTHER -> self
         IN  IF IsPanic(res) THEN [tag |-> "Panic", why |-> res.panic]
             ELSE [tag |-> "Ok", model |-> res]

\* the pair (operand_value, instruction), or Panic(..) when the operand
\* indexes outside the memory
decode_instruction(self) ==
    LET instr   == from_number(self.instruction)
        operand == get_operand(instr)
    IN  IF ~InBounds(self.main_store, operand) THEN Panic("index")
        ELSE [operand_value |-> self.main_store[operand], instruction |-> instr]

execute(self) ==
    LET d == decode_instruction(self)
    IN  IF IsPanic(d) THEN [tag |-> "Panic", why |-> d.panic]
        ELSE dispatch_instruction(self, d.instruction, d.operand_value)

(***************************************************************************)
(* BabyModel: run_loop.  The result is [tag |-> "Returned", model |-> m,   *)
(* err |-> e] for the returned pair (m, e), e being the Stop error of      *)
(* execute or [kind |-> "IterationExceeded", max_iter, end_model]; a panic *)
(* of the thread is [tag |-> "Panic", why |-> w].  calls is the number of  *)
(* execute calls the loop has made.                                        *)
(***************************************************************************)
\* the `for _ in 0..max_iter` loop, i iterations of it done
RECURSIVE run_loop_from(_, _, _)
run_loop_from(model, i, max_iter) ==
    IF i >= max_iter
        THEN [tag |-> "Returned", model |-> model,
              err |-> [kind |-> "IterationExceeded", max_iter |-> max_iter,
                       end_model |-> model],
              calls |-> i]
    ELSE LET r == execute(model)
         IN  CASE r.tag = "Ok" -> run_loop_from(r.model, i + 1, max_iter)
               [] r.tag = "Err" ->
                    [tag |-> "Returned", model |-> model, err |-> r.err,
                     calls |-> i + 1]
               [] OTHER -> [tag |-> "Panic", why |-> r.why, calls |-> i + 1]

\* run_loop returning the model it was called on next to the outcome
run_loop_returns_self(self, max_iter) ==
    LET r == run_loop_from(self, 0, max_iter)
    IN  IF r.tag = "Returned" THEN [r EXCEPT !.model = self] ELSE r

\* run_loop applying the step of the Stop before it returns
run_loop_steps_past_stop(self, max_iter) ==
    LET r == run_loop_from(self, 0, max_iter)
    IN  IF r.tag = "Returned" /\ r.err.kind = "Stop"
            THEN [r EXCEPT !.model.instruction_address =
                               And1F(u16_wrapping_add(@, 1))]
            ELSE r

\* run_loop reporting the Stop its last model has fetched but not executed
run_loop_sees_stop_ahead(self, max_iter) ==
    LET r == run_loop_from(self, 0, max_iter)
    IN  IF /\ r.tag = "Returned"
           /\ r.err.kind = "IterationExceeded"
           /\ from_number(r.model.instruction).op = "Stop"
            THEN [r EXCEPT !.err = [kind |-> "Stop",
                                    at |-> r.model.instruction_address]]
            ELSE r

run_loop(self, max_iter) == run_loop_from(self, 0, max_iter)

(***************************************************************************)
(* The assembler's line records (parser::LineType) and the linker.  A line *)
(* is [type |-> "Tag", name |-> t], [type |-> "Absolute", value |-> v] or  *)
(* [type |-> "Instruction", instr |-> i]; a value expression v is          *)
(* [kind |-> "Value", v |-> n] or [kind |-> "Tag", name |-> t]; an         *)
(* instruction i is [op |-> o, operand |-> v], [op |-> "Test"] or          *)
(* [op |-> "Stop"].  An Option is [some |-> TRUE, v |-> x] or              *)
(* [some |-> FALSE], a Result is [ok |-> TRUE, v |-> x] or                 *)
(* [ok |-> FALSE, err |-> e], and a HashMap is a function on its keys.     *)
(***************************************************************************)
Some(x) == [some |-> TRUE, v |-> x]

None == [some |-> FALSE]

Ok(x) == [ok |-> TRUE, v |-> x]

Err(e) == [ok |-> FALSE, err |-> e]

IsReal(line) == line.type \in {"Absolute", "Instruction"}

\* parser::Instruction::get_operand
Instruction_get_operand(instr) ==
    IF instr.op \in {"Test", "Stop"} THEN [kind |-> "Value", v |-> 0]
    ELSE instr.operand

\* inline_tags binding the first tag of a run of tag lines, not the nearest
inline_tags_first_of_run(lines) ==
    LET RunStart(k) == CHOOSE j \in 1..k :
                          /\ \A h \in j..k : lines[h].type = "Tag"
                          /\ j = 1 \/ lines[j - 1].type # "Tag"
        before(k) == IF k = 1 THEN lines[1] ELSE lines[k - 1]
        paired == [k \in 1..Len(lines) |->
                      [tag  |-> IF k > 1 /\ before(k).type = "Tag"
                                    THEN Some(lines[RunStart(k - 1)].name)
                                    ELSE None,
                       data |-> lines[k]]]
    IN  SelectSeq(paired, LAMBDA e : IsReal(e.data))

\* line k (from 1) is paired with the tag of the line before it (line 1
\* with itself, `if i == 0 { 1 }`), then the tag lines are dropped
inline_tags(lines) ==
    LET before(k) == IF k = 1 THEN lines[1] ELSE lines[k - 1]
        paired == [k \in 1..Len(lines) |->
                      [tag  |-> IF before(k).type = "Tag"
                                    THEN Some(before(k).name) ELSE None,
                       data |-> lines[k]]]
    IN  SelectSeq(paired, LAMBDA e : IsReal(e.data))

\* position_tags keeping the first position of a name declared twice
position_tags_first_wins(lines) ==
    LET names == {lines[k].tag.v : k \in {h \in 1..Len(lines) : lines[h].tag.some}}
    IN  [t \in names |->
            (CHOOSE k \in 1..Len(lines) :
                /\ lines[k].tag = Some(t)
                /\ \A h \in 1..(k - 1) : lines[h].tag # Some(t)) - 1]

\* position_tags counting positions from 1
position_tags_from_one(lines) ==
    LET names == {lines[k].tag.v : k \in {h \in 1..Len(lines) : lines[h].tag.some}}
    IN  [t \in names |->
            CHOOSE k \in 1..Len(lines) :
                /\ lines[k].tag = Some(t)
                /\ \A h \in (k + 1)..Len(lines) : lines[h].tag # Some(t)]

\* collect() inserts the (name, index) pairs in order: the last one stays
position_tags(lines) ==
    LET names == {lines[k].tag.v : k \in {h \in 1..Len(lines) : lines[h].tag.some}}
    IN  [t \in names |->
            (CHOOSE k \in 1..Len(lines) :
                /\ lines[k].tag = Some(t)
                /\ \A h \in (k + 1)..Len(lines) : lines[h].tag # Some(t)) - 1]

get_tag(tag, tags) ==
    IF tag \in DOMAIN tags THEN Ok(tags[tag]) ELSE Err(tag)

\* resolve_value looking a literal up as a position
resolve_value_literal_checked(val, tags) ==
    IF val.kind = "Tag" THEN get_tag(val.name, tags)
    ELSE IF \E t \in DOMAIN tags : tags[t] = val.v THEN Ok(val.v)
    ELSE Err("")

resolve_value(val, tags) ==
    IF val.kind = "Tag" THEN get_tag(val.name, tags) ELSE Ok(val.v)

\* resolve_absolute_value cutting the value to 16 bits as for an operand
resolve_absolute_value_as_u16(val, tags) ==
    LET r == resolve_value(val, tags)
    IN  IF r.ok THEN Ok([op |-> "AbsoluteValue", value |-> AsU16(r.v)])
        ELSE Err([kind |-> "UnknownTagName", name |-> r.err])

resolve_absolute_value(val, tags) ==
    LET r == resolve_value(val, tags)
    IN  IF r.ok THEN Ok([op |-> "AbsoluteValue", value |-> r.v])
        ELSE Err([kind |-> "UnknownTagName", name |-> r.err])

resolve_instruction(instr, tags) ==
    LET r == resolve_value(Instruction_get_operand(instr), tags)
    IN  IF ~r.ok THEN Err([kind |-> "UnknownTagName", name |-> r.err])
        ELSE LET val == AsU16(r.v)
             IN  CASE instr.op = "Test" -> Ok([op |-> "SkipNextIfNegative"])
                   [] instr.op = "Stop" -> Ok([op |-> "Stop"])
                   [] OTHER -> Ok([op |-> instr.op, operand |-> val])

resolve(data, tags) ==
    IF data.type = "Absolute" THEN resolve_absolute_value(data.value, tags)
    ELSE resolve_instruction(data.instr, tags)

\* the `for line in preprocessed_lines` loop, from line k on; resolved is
\* the number of resolve calls made
RECURSIVE link_tags_from(_, _, _, _)
link_tags_from(preprocessed_lines, tag_values, k, instructions) ==
    IF k > Len(preprocessed_lines)
        THEN [ok |-> TRUE, v |-> instructions, resolved |-> k - 1]
    ELSE LET r == resolve(preprocessed_lines[k], tag_values)
         IN  IF r.ok
                 THEN link_tags_from(preprocessed_lines, tag_values, k + 1,
                                     Append(instructions, r.v))
                 ELSE [ok |-> FALSE, err |-> [kind |-> "TagError", error |-> r.err],
                       resolved |-> k]

\* link_tags resolving every line and reporting the last failure
link_tags_last_error(preprocessed_lines, tag_values) ==
    LET n      == Len(preprocessed_lines)
        failed == {k \in 1..n : ~resolve(preprocessed_lines[k], tag_values).ok}
    IN  IF n > MEMORY_WORDS
            THEN [ok |-> FALSE,
                  err |-> [kind |-> "MemoryExceedingError", linked_size |-> n],
                  resolved |-> 0]
        ELSE IF failed = {}
            THEN link_tags_from(preprocessed_lines, tag_values, 1, << >>)
        ELSE LET k == CHOOSE h \in failed : \A g \in failed : g <= h
             IN  [ok |-> FALSE,
                  err |-> [kind |-> "TagError",
                           error |-> resolve(preprocessed_lines[k], tag_values).err],
                  resolved |-> n]

\* link_tags refusing a program that exactly fills the memory
link_tags_full_is_too_large(preprocessed_lines, tag_values) ==
    IF Len(preprocessed_lines) >= MEMORY_WORDS
        THEN [ok |-> FALSE,
              err |-> [kind |-> "MemoryExceedingError",
                       linked_size |-> Len(preprocessed_lines)],
              resolved |-> 0]
    ELSE link_tags_from(preprocessed_lines, tag_values, 1, << >>)

\* link_tags resolving the lines first and checking the size afterwards
link_tags_size_checked_last(preprocessed_lines, tag_values) ==
    LET r == link_tags_from(preprocessed_lines, tag_values, 1, << >>)
    IN  IF ~r.ok THEN r
        ELSE IF Len(preprocessed_lines) > MEMORY_WORDS
            THEN [ok |-> FALSE,
                  err |-> [kind |-> "MemoryExceedingError",
                           linked_size |-> Len(preprocessed_lines)],
                  resolved |-> r.resolved]
        ELSE r

link_tags(preprocessed_lines, tag_values) ==
    IF Len(preprocessed_lines) > MEMORY_WORDS
        THEN [ok |-> FALSE,
              err |-> [kind |-> "MemoryExceedingError",
                       linked_size |-> Len(preprocessed_lines)],
              resolved |-> 0]
    ELSE link_tags_from(preprocessed_lines, tag_values, 1, << >>)

\* link_parsed_lines resolving as it goes, with the tags declared so far
link_parsed_lines_one_pass(lines) ==
    LET inlined_tags == inline_tags(lines)
        n            == Len(inlined_tags)
        known(k)     == position_tags(SubSeq(inlined_tags, 1, k))
        failed       == {k \in 1..n : ~resolve(inlined_tags[k].data, known(k)).ok}
    IN  IF n > MEMORY_WORDS
            THEN [ok |-> FALSE,
                  err |-> [kind |-> "MemoryExceedingError", linked_size |-> n],
                  resolved |-> 0]
        ELSE IF failed = {}
            THEN [ok |-> TRUE,
                  v |-> [instructions |->
                            [k \in 1..n |-> resolve(inlined_tags[k].data, known(k)).v],
                         tag_values |-> position_tags(inlined_tags)],
                  resolved |-> n]
        ELSE LET k == CHOOSE h \in failed : \A g \in failed : h <= g
             IN  [ok |-> FALSE,
                  err |-> [kind |-> "TagError",
                           error |-> resolve(inlined_tags[k].data, known(k)).err],
                  resolved |-> k]

\* LinkerData(instructions, tag_values) is the record v of the result
link_parsed_lines(lines) ==
    LET inlined_tags       == inline_tags(lines)
        tag_values         == position_tags(inlined_tags)
        preprocessed_lines == [k \in 1..Len(inlined_tags) |-> inlined_tags[k].data]
        processed_lines    == link_tags(preprocessed_lines, tag_values)
    IN  IF processed_lines.ok
            THEN [ok |-> TRUE,
                  v |-> [instructions |-> processed_lines.v,
                         tag_values |-> tag_values],
                  resolved |-> processed_lines.resolved]
            ELSE processed_lines

(***************************************************************************)
(* The assembler's parser.  A string is the sequence of its characters,    *)
(* each a one-character string; the Option, Result and line records are    *)
(* those of the linker, a tag name being a string in this sense.  The      *)
(* errors are records of their variant and what it carries.                *)
(***************************************************************************)
UpperCase ==
    <<"A", "B", "C", "D", "E", "F", "G", "H", "I", "J", "K", "L", "M",
      "N", "O", "P", "Q", "R", "S", "T", "U", "V", "W", "X", "Y", "Z">>

LowerCase ==
    <<"a", "b", "c", "d", "e", "f", "g", "h", "i", "j", "k", "l", "m",
      "n", "o", "p", "q", "r", "s", "t", "u", "v", "w", "x", "y", "z">>

DecimalDigits == <<"0", "1", "2", "3", "4", "5", "6", "7", "8", "9">>

char_to_lowercase(c) ==
    IF \E i \in 1..26 : UpperCase[i] = c
        THEN LowerCase[CHOOSE i \in 1..26 : UpperCase[i] = c]
        ELSE c

\* str::to_lowercase
to_lowercase(s) ==
    IF s = << >> THEN << >>
    ELSE [i \in 1..Len(s) |-> char_to_lowercase(s[i])]

\* char::is_whitespace, for the characters of the lines
is_whitespace(c) == c \in {" ", "\t"}

\* str::trim
trim(s) ==
    LET ink == {i \in 1..Len(s) : ~is_whitespace(s[i])}
    IN  IF ink = {} THEN << >>
        ELSE SubSeq(s, CHOOSE i \in ink : \A j \in ink : i <= j,
                       CHOOSE i \in ink : \A j \in ink : j <= i)

\* str::starts_with
starts_with(s, prefix) ==
    Len(prefix) <= Len(s) /\ SubSeq(s, 1, Len(prefix)) = prefix

\* str::ends_with
ends_with(s, suffix) ==
    /\ Len(suffix) <= Len(s)
    /\ SubSeq(s, Len(s) - Len(suffix) + 1, Len(s)) = suffix

\* str::replace: every occurrence of from, found from the left, becomes to
RECURSIVE replace(_, _, _)
replace(s, from, to) ==
    IF s = << >> THEN << >>
    ELSE IF starts_with(s, from)
        THEN to \o replace(SubSeq(s, Len(from) + 1, Len(s)), from, to)
    ELSE <<s[1]>> \o replace(Tail(s), from, to)

\* str::contains(char::is_whitespace)
contains_whitespace(s) == \E i \in 1..Len(s) : is_whitespace(s[i])

\* char::to_digit: the value of the digit, 36 for a character that is none
to_digit(c) ==
    LET l == char_to_lowercase(c)
    IN  IF \E i \in 1..10 : DecimalDigits[i] = l
            THEN (CHOOSE i \in 1..10 : DecimalDigits[i] = l) - 1
        ELSE IF \E i \in 1..26 : LowerCase[i] = l
            THEN (CHOOSE i \in 1..26 : LowerCase[i] = l) + 9
        ELSE 36

\* the digit loop of i32::from_str_radix from character i on: checked_mul
\* and checked_add for a positive number, checked_sub for a negative one
RECURSIVE from_str_radix_digits(_, _, _, _, _)
from_str_radix_digits(s, i, acc, radix, positive) ==
    IF i > Len(s) THEN Ok(acc)
    ELSE LET d == to_digit(s[i])
         IN  IF d >= radix THEN Err("InvalidDigit")
             ELSE IF positive
                 THEN IF acc > (WORD_MAX - d) \div radix THEN Err("PosOverflow")
                      ELSE from_str_radix_digits(s, i + 1, acc * radix + d,
                                                 radix, positive)
             ELSE IF acc < (WORD_MIN + d + radix - 1) \div radix
                 THEN Err("NegOverflow")
             ELSE from_str_radix_digits(s, i + 1, acc * radix - d,
                                        radix, positive)

\* i32::from_str_radix
from_str_radix(s, radix) ==
    IF s = << >> THEN Err("Empty")
    ELSE IF s[1] \in {"+", "-"}
        THEN IF Len(s) = 1 THEN Err("InvalidDigit")
             ELSE from_str_radix_digits(Tail(s), 1, 0, radix, s[1] = "+")
    ELSE from_str_radix_digits(s, 1, 0, radix, TRUE)

\* Value::parse_hex, parse_decimal, parse_octal, parse_binary
parse_radix(value, radix, error) ==
    LET r == from_str_radix(value, radix)
    IN  IF r.ok THEN Ok([kind |-> "Value", v |-> r.v])
        ELSE Err([kind |-> error, value |-> value])

parse_hex(value) == parse_radix(value, 16, "InvalidHex")

parse_decimal(value) == parse_radix(value, 10, "InvalidDecimal")

parse_octal(value) == parse_radix(value, 8, "InvalidOctal")

parse_binary(value) == parse_radix(value, 2, "InvalidBinary")

parse_tag_name(v) ==
    IF ~contains_whitespace(v) THEN Ok([kind |-> "Tag", name |-> v])
    ELSE Err([kind |-> "InvalidTagName", value |-> v])

\* Value::parse
Value_parse(value) ==
    LET v == trim(value)
    IN  IF starts_with(v, <<"0", "x">>) THEN parse_hex(replace(v, <<"0", "x">>, << >>))
        ELSE IF starts_with(v, <<"0", "d">>) THEN parse_decimal(replace(v, <<"0", "d">>, << >>))
        ELSE IF starts_with(v, <<"0", "o">>) THEN parse_octal(replace(v, <<"0", "o">>, << >>))
        ELSE IF starts_with(v, <<"0", "b">>) THEN parse_binary(replace(v, <<"0", "b">>, << >>))
        ELSE IF starts_with(v, <<"$">>)
            THEN parse_tag_name(replace(v, <<"$">>, << >>))
        ELSE Err([kind |-> "InvalidValue", value |-> v])

\* Instruction::make_instruction, instr being the name of the variant
make_instruction(instr, operand) ==
    LET value == Value_parse(operand)
    IN  IF value.ok THEN Ok([op |-> instr, operand |-> value.v])
        ELSE Err([kind |-> "OperandValueParseError",
                  instr |-> [op |-> instr,
                             operand |-> [kind |-> "Value", v |-> 0]],
                  error |-> value.err])

\* Instruction::parse: modern notation
Instruction_parse(text) ==
    LET c == to_lowercase(trim(text))
    IN  IF starts_with(c, <<"j", "m", "p", " ">>)
            THEN make_instruction("Jump", replace(c, <<"j", "m", "p", " ">>, << >>))
        ELSE IF starts_with(c, <<"j", "r", "p", " ">>)
            THEN make_instruction("RelativeJump", replace(c, <<"j", "r", "p", " ">>, << >>))
        ELSE IF starts_with(c, <<"l", "d", "n", " ">>)
            THEN make_instruction("Negate", replace(c, <<"l", "d", "n", " ">>, << >>))
        ELSE IF starts_with(c, <<"s", "t", "o", " ">>)
            THEN make_instruction("Store", replace(c, <<"s", "t", "o", " ">>, << >>))
        ELSE IF starts_with(c, <<"s", "u", "b", " ">>)
            THEN make_instruction("Subtract", replace(c, <<"s", "u", "b", " ">>, << >>))
        ELSE IF starts_with(c, <<"c", "m", "p">>) THEN Ok([op |-> "Test"])
        ELSE IF starts_with(c, <<"s", "t", "p">>) THEN Ok([op |-> "Stop"])
        ELSE Err([kind |-> "UnkownInstruction", text |-> c])

\* Instruction::parse_ogn: original notation
Instruction_parse_ogn(text) ==
    LET c == trim(text)
    IN  IF ends_with(c, <<",", " ", "C", "l">>) /\ ~starts_with(c, <<"A", "d", "d", " ">>)
            THEN make_instruction("Jump", replace(c, <<",", " ", "C", "l">>, << >>))
        ELSE IF starts_with(c, <<"A", "d", "d", " ">>) /\ ends_with(c, <<",", " ", "C", "l">>)
            THEN make_instruction("RelativeJump",
                                  replace(replace(c, <<"A", "d", "d", " ">>, << >>), <<",", " ", "C", "l">>, << >>))
        ELSE IF starts_with(c, <<"-">>) /\ ends_with(c, <<",", " ", "C">>)
            THEN make_instruction("Negate",
                                  replace(replace(c, <<"-">>, << >>), <<",", " ", "C">>, << >>))
        ELSE IF starts_with(c, <<"c", ",", " ">>)
            THEN make_instruction("Store", replace(c, <<"c", ",", " ">>, << >>))
        ELSE IF starts_with(c, <<"S", "U", "B", " ">>)
            THEN make_instruction("Subtract", replace(c, <<"S", "U", "B", " ">>, << >>))
        ELSE IF starts_with(c, <<"T", "e", "s", "t">>) THEN Ok([op |-> "Test"])
        ELSE IF starts_with(c, <<"S", "t", "o", "p">>) THEN Ok([op |-> "Stop"])
        ELSE Err([kind |-> "UnkownInstruction", text |-> c])

\* the part of the line before the first ";"
strip_comments(line) ==
    LET semi == {i \in 1..Len(line) : line[i] = ";"}
    IN  IF semi = {} THEN line
        ELSE SubSeq(line, 1, (CHOOSE i \in semi : \A j \in semi : i <= j) - 1)

parse_tag(tag) ==
    LET t == trim(tag)
    IN  IF contains_whitespace(t)
            THEN Err([kind |-> "TagError",
                      error |-> [kind |-> "TagNameWhitespace", name |-> t]])
        ELSE Ok([type |-> "Tag", name |-> t])

parse_absolute(tag) ==
    LET r == Value_parse(tag)
    IN  IF r.ok THEN Ok([type |-> "Absolute", value |-> r.v])
        ELSE Err([kind |-> "AbsoluteError",
                  error |-> [kind |-> "ValueError", error |-> r.err]])

\* parse_instruction: modern notation
parse_instruction(text) ==
    LET r == Instruction_parse(text)
    IN  IF r.ok THEN Ok([type |-> "Instruction", instr |-> r.v])
        ELSE Err([kind |-> "InstructionError", error |-> r.err])

\* parse_instruction_ogn: original notation
parse_instruction_ogn(text) ==
    LET r == Instruction_parse_ogn(text)
    IN  IF r.ok THEN Ok([type |-> "Instruction", instr |-> r.v])
        ELSE Err([kind |-> "InstructionError", error |-> r.err])

parse_line(line, og_notation) ==
    LET l == strip_comments(to_lowercase(trim(line)))
    IN  IF starts_with(l, <<":">>) THEN parse_tag(replace(l, <<":">>, << >>))
        ELSE IF starts_with(l, <<"a", "b", "s", " ">>) THEN parse_absolute(replace(l, <<"a", "b", "s", " ">>, << >>))
        ELSE IF og_notation THEN parse_instruction(l)
        ELSE parse_instruction_ogn(l)

(***************************************************************************)
(* The memory images the machines are created with: the word at address 0  *)
(* is an instruction word of any of the 8 opcode patterns, the cells 1, 2  *)
(* and 31 hold chosen words, at most two of them other than 0, and every   *)
(* other cell is 0.                                                        *)
(***************************************************************************)
FirstOperands == {0, 2, 31}

FirstWords == {p * 8192 + s : p \in 0..7, s \in FirstOperands}

\* data words (small, negative, the two ends of the word range, a word with
\* bits above the instruction field) and instruction words (SkipNextIfNegative,
\* Stop, Store 2, RelativeJump 2, Subtract 2 with opcode 101, Negate 2)
PokeWords == {0, 33, -1, WORD_MIN, WORD_MAX, 90112,
              24576, 57344, 49154, 32770, 40962, 16386}

\* the words tried at address 31
LastWords == {0, 33, -1, 24576, 57344}

Image(w0, v1, v2, v31) ==
    [a \in 0..(MEMORY_WORDS - 1) |->
        CASE a = 0 -> w0
          [] a = 1 -> v1
          [] a = 2 -> v2
          [] a = 31 -> v31
          [] OTHER -> 0]

(***************************************************************************)
(* The state machine: a machine is created by new() or                     *)
(* new_with_program(m), and the caller drives it with execute, replacing   *)
(* its model by the returned one.  prev is the model the last execute was  *)
(* called on, outcome what that call returned (without the model), steps   *)
(* the number of calls made.                                               *)
(***************************************************************************)
self == BabyModel(main_store, accumulator, instruction_address, instruction)

Created(m) ==
    /\ main_store = m.main_store
    /\ accumulator = m.accumulator
    /\ instruction_address = m.instruction_address
    /\ instruction = m.instruction
    /\ prev = m
    /\ outcome = [tag |-> "None"]
    /\ steps = 0
    /\ first = m
    /\ run = [tag |-> "None"]

\* no call of the instruction codec is under consideration
CodecIdle ==
    /\ codec_in = [kind |-> "none"]
    /\ codec_out = << >>

\* no line is being parsed
ParserIdle ==
    /\ parse_in = [kind |-> "none"]
    /\ parse_out = << >>

\* no program is being assembled
AssemblerIdle ==
    /\ asm_lines = << >>
    /\ link_out = << >>
    /\ image = << >>

Init ==
    /\ overflow_checks \in BOOLEAN
    /\ ParserIdle
    /\ CodecIdle
    /\ AssemblerIdle
    /\ \/ Created(new)
       \/ \E w0 \in FirstWords, v1 \in PokeWords, v2 \in PokeWords, v31 \in LastWords :
            /\ v1 = 0 \/ v2 = 0 \/ v31 = 0
            /\ Created(new_with_program(Image(w0, v1, v2, v31)))

CallExecute ==
    /\ steps < MaxSteps
    /\ outcome.tag # "Panic"
    /\ LET r == execute(self)
       IN  /\ IF r.tag = "Ok"
                THEN /\ main_store' = r.model.main_store
                     /\ accumulator' = r.model.accumulator
                     /\ instruction_address' = r.model.instruction_address
                     /\ instruction' = r.model.instruction
                     /\ outcome' = [tag |-> "Ok"]
                ELSE /\ UNCHANGED <<main_store, accumulator,
                                    instruction_address, instruction>>
                     /\ outcome' = r
    /\ prev' = self
    /\ steps' = steps + 1
    /\ UNCHANGED <<overflow_checks, first, run, codec_in, codec_out,
                   asm_lines, link_out, image,
                   parse_in, parse_out>>

Next == CallExecute

Spec == Init /\ [][Next]_vars

(***************************************************************************)
(* The machine driven by run_loop as well: a caller that holds the created *)
(* model calls run_loop(max_iter) on it (run records the call and what it  *)
(* returned; the model itself is borrowed and stays as it is), and the     *)
(* model is driven step by step by execute as before.  first is the model  *)
(* the machine was created with.                                           *)
(***************************************************************************)
\* the largest max_iter passed to run_loop
MaxIter == 4

RunFirstWords == {p * 8192 + s : p \in 0..7, s \in {0, 2}}

\* the words tried at addresses 1 and 2: data, Stop, Store 2, Negate 2
RunWords == {0, 33, -1, WORD_MIN, 57344, 49154, 16386}

InitRun ==
    /\ overflow_checks \in BOOLEAN
    /\ ParserIdle
    /\ CodecIdle
    /\ AssemblerIdle
    /\ \/ Created(new)
       \/ Created(new_example_program)
       \/ \E w0 \in RunFirstWords, v1 \in RunWords, v2 \in RunWords :
            Created(new_with_program(Image(w0, v1, v2, 0)))

\* run_loop running the model it is called on in place
CallRunLoop_in_place ==
    /\ steps = 0
    /\ run.tag = "None"
    /\ \E max_iter \in 0..MaxIter :
            LET r == run_loop(self, max_iter)
            IN  /\ run' = [tag |-> "Called", max_iter |-> max_iter, result |-> r]
                /\ IF r.tag = "Returned"
                        THEN /\ main_store' = r.model.main_store
                             /\ accumulator' = r.model.accumulator
                             /\ instruction_address' = r.model.instruction_address
                             /\ instruction' = r.model.instruction
                        ELSE UNCHANGED <<main_store, accumulator,
                                         instruction_address, instruction>>
    /\ UNCHANGED <<overflow_checks, outcome, prev, steps, first,
                   codec_in, codec_out, asm_lines, link_out, image,
                   parse_in, parse_out>>

CallRunLoop ==
    /\ steps = 0
    /\ run.tag = "None"
    /\ \E max_iter \in 0..MaxIter :
            run' = [tag |-> "Called", max_iter |-> max_iter,
                    result |-> run_loop(self, max_iter)]
    /\ UNCHANGED <<main_store, accumulator, instruction_address, instruction,
                   overflow_checks, outcome, prev, steps, first,
                   codec_in, codec_out, asm_lines, link_out, image,
                   parse_in, parse_out>>

NextRun == CallExecute \/ CallRunLoop

SpecRun == InitRun /\ [][NextRun]_vars

(***************************************************************************)
(* dispatch_instruction called by hand, as the tests call it: on a created *)
(* model, or on one that execute has driven some steps, with an            *)
(* instruction and a value the caller chooses.  run records the model, the *)
(* arguments and the result of the call.                                   *)
(***************************************************************************)
\* the words tried at address 1
DispatchWords == {0, 33, -1, 57344}

\* the operands embedded in the instruction handed to dispatch_instruction
DispatchOperands == {0, 31}

\* the values handed to dispatch_instruction as operand_value
DispatchValues == {0, 2, 33, -1, 65541, WORD_MIN}

DispatchInstructions ==
    [op : {"Jump", "RelativeJump", "Negate", "Store", "Subtract"},
     operand : DispatchOperands]
    \cup {[op |-> "SkipNextIfNegative"], [op |-> "Stop"],
          [op |-> "AbsoluteValue", value |-> 5]}

InitDispatch ==
    /\ overflow_checks \in BOOLEAN
    /\ ParserIdle
    /\ CodecIdle
    /\ AssemblerIdle
    /\ \E w0 \in RunFirstWords, v1 \in DispatchWords :
            Created(new_with_program(Image(w0, v1, 0, 0)))

\* a step of the model before the call
ExecuteBefore == run.tag = "None" /\ CallExecute

CallDispatchInstruction ==
    /\ run.tag = "None"
    /\ outcome.tag \in {"None", "Ok"}
    /\ \E instr \in DispatchInstructions, operand_value \in DispatchValues :
            run' = [tag |-> "Dispatched", model |-> self, instr |-> instr,
                    operand_value |-> operand_value,
                    result |-> dispatch_instruction(self, instr, operand_value)]
    /\ UNCHANGED <<main_store, accumulator, instruction_address, instruction,
                   overflow_checks, outcome, prev, steps, first,
                   codec_in, codec_out, asm_lines, link_out, image,
                   parse_in, parse_out>>

NextDispatch == ExecuteBefore \/ CallDispatchInstruction

SpecDispatch == InitDispatch /\ [][NextDispatch]_vars

(***************************************************************************)
(* The instruction codec on its own: an input is a 16-bit word, laid out   *)
(* as the opcode in the top 3 bits of an instr_len-bit field, the operand  *)
(* in the low 5 bits and the bits between, or an instruction.  codec_out   *)
(* is the sequence of the calls made so far, each with its result:         *)
(* from_number, to_number or get_operand of the input, then from_number of *)
(* an encoded word or to_number of a decoded instruction.                  *)
(***************************************************************************)
\* INSTR_LEN of the default build and of the i8 feature
InstrLens == {16, 8}

\* contents of the bits 5..12 of a 16-bit word: none, each bit alone, all
MidBits == {0, 1, 2, 4, 8, 16, 32, 64, 128, 255}

WordInput(len, p, m, a) ==
    [kind |-> "word", instr_len |-> len, opcode |-> p, mid |-> m,
     operand |-> a, word |-> ShiftLeft(p, len - 3) + 32 * m + a]

\* u16 operands: every 5-bit value and values with higher bits set
OperandValues == (0..31) \cup {32, 33, 63, 8191, 8192, 8197, 32768, 65535}

AbsoluteValues == {0, 5, -5, -1, 33, 24576, 65536, WORD_MIN, WORD_MAX}

Instructions ==
    [op : {"Jump", "RelativeJump", "Negate", "Store", "Subtract"},
     operand : OperandValues]
    \cup {[op |-> "SkipNextIfNegative"], [op |-> "Stop"]}
    \cup [op : {"AbsoluteValue"}, value : AbsoluteValues]

InitCodec ==
    /\ overflow_checks = FALSE
    /\ ParserIdle
    /\ Created(new)
    /\ AssemblerIdle
    /\ codec_out = << >>
    /\ \/ \E p \in 0..7, m \in MidBits, a \in 0..31 :
            codec_in = WordInput(16, p, m, a)
       \/ \E p \in 0..7, a \in 0..31 : codec_in = WordInput(8, p, 0, a)
       \/ \E i \in Instructions : codec_in = [kind |-> "instr", instr |-> i]

CodecCall(fn, res) ==
    /\ codec_out' = Append(codec_out, [fn |-> fn, res |-> res])
    /\ UNCHANGED <<main_store, accumulator, instruction_address, instruction,
                   overflow_checks, outcome, prev, steps, first, run, codec_in,
                   asm_lines, link_out, image,
                   parse_in, parse_out>>

CallFromNumber ==
    /\ codec_in.kind = "word" /\ codec_out = << >>
    /\ CodecCall("from_number", from_number(codec_in.word))

CallToNumber ==
    /\ codec_in.kind = "instr" /\ codec_out = << >>
    /\ CodecCall("to_number", to_number(codec_in.instr))

CallGetOperand ==
    /\ codec_in.kind = "instr" /\ codec_out = << >>
    /\ CodecCall("get_operand", get_operand(codec_in.instr))

\* from_number(i.to_number() as u16)
DecodeEncoded ==
    /\ Len(codec_out) = 1 /\ codec_out[1].fn = "to_number"
    /\ CodecCall("from_number", from_number(AsU16(codec_out[1].res)))

\* from_number(w).to_number()
EncodeDecoded ==
    /\ Len(codec_out) = 1 /\ codec_out[1].fn = "from_number"
    /\ CodecCall("to_number", to_number(codec_out[1].res))

NextCodec ==
    \/ CallFromNumber
    \/ CallToNumber
    \/ CallGetOperand
    \/ DecodeEncoded
    \/ EncodeDecoded

SpecCodec == InitCodec /\ [][NextCodec]_vars

(***************************************************************************)
(* The linker on its own: the input is a sequence of line records as the   *)
(* parser returns them, link_out is the sequence of the calls made so far, *)
(* each with its result: inline_tags of the input, position_tags of the    *)
(* inlined lines and resolve of one of them with these tags, or            *)
(* link_parsed_lines of the input; image is what to_numbers makes of the   *)
(* linked instructions.                                                    *)
(***************************************************************************)
\* the longest program of mixed lines
MaxLines == 3

\* the longest program of tag declarations and tag references
MaxTagLines == 5

TagLine(t) == [type |-> "Tag", name |-> t]

Literal(n) == [kind |-> "Value", v |-> n]

TagRef(t) == [kind |-> "Tag", name |-> t]

InstrLine(op, val) == [type |-> "Instruction", instr |-> [op |-> op, operand |-> val]]

BareLine(op) == [type |-> "Instruction", instr |-> [op |-> op]]

AbsLine(val) == [type |-> "Absolute", value |-> val]

\* tags a and b are declared by some programs, c by none
TagAlphabet ==
    {TagLine("a"), TagLine("b"),
     InstrLine("Jump", TagRef("a")), InstrLine("Negate", TagRef("b"))}

MixedAlphabet ==
    TagAlphabet \cup
    {InstrLine("Subtract", TagRef("c")), InstrLine("Store", Literal(33)),
     AbsLine(TagRef("a")), AbsLine(Literal(-5)), BareLine("Stop")}

\* literal operands and data words: 5-bit values, larger and negative ones
LiteralValues == {0, 2, 31, 32, 33, -1, -31, 65543, WORD_MIN, WORD_MAX}

LiteralPrograms ==
    {<<InstrLine(op, Literal(n))>> :
        op \in {"Jump", "RelativeJump", "Negate", "Store", "Subtract"},
        n \in LiteralValues}
    \cup {<<AbsLine(Literal(n))>> : n \in LiteralValues}
    \cup {<<BareLine("Test")>>}

\* the program of test_link_parsed_lines_correct
StartProgram ==
    << TagLine("start"), InstrLine("Negate", Literal(2)),
       InstrLine("Jump", TagRef("start")), AbsLine(Literal(5)) >>

\* the program of test_link_parsed_lines_fail
FooProgram ==
    << TagLine("start"), InstrLine("Negate", Literal(2)),
       InstrLine("Jump", TagRef("foo")), AbsLine(Literal(5)) >>

LinkerPrograms ==
    UNION {[1..n -> TagAlphabet] : n \in 0..MaxTagLines}
    \cup UNION {[1..n -> MixedAlphabet] : n \in 0..MaxLines}
    \cup LiteralPrograms
    \cup {StartProgram, FooProgram}

InitLink ==
    /\ overflow_checks = FALSE
    /\ ParserIdle
    /\ Created(new)
    /\ CodecIdle
    /\ asm_lines \in LinkerPrograms
    /\ link_out = << >>
    /\ image = << >>

LinkerCall(call) ==
    /\ link_out' = Append(link_out, call)
    /\ UNCHANGED <<main_store, accumulator, instruction_address, instruction,
                   overflow_checks, outcome, prev, steps, first, run,
                   codec_in, codec_out, asm_lines, image,
                   parse_in, parse_out>>

CallInlineTags ==
    /\ link_out = << >>
    /\ LinkerCall([fn |-> "inline_tags", res |-> inline_tags(asm_lines)])

CallPositionTags ==
    /\ Len(link_out) = 1 /\ link_out[1].fn = "inline_tags"
    /\ LinkerCall([fn |-> "position_tags", res |-> position_tags(link_out[1].res)])

\* the value expression of an unlinked line
ValueOf(data) ==
    IF data.type = "Absolute" THEN data.value
    ELSE Instruction_get_operand(data.instr)

\* resolve, and resolve_value, of one of the inlined lines with the tags
CallResolve ==
    /\ Len(link_out) = 2 /\ link_out[2].fn = "position_tags"
    /\ \E k \in 1..Len(link_out[1].res) :
            LET data == link_out[1].res[k].data
                tags == link_out[2].res
            IN  LinkerCall([fn |-> "resolve", line |-> k, data |-> data,
                            value |-> resolve_value(ValueOf(data), tags),
                            res |-> resolve(data, tags)])

CallLinkParsedLines ==
    /\ link_out = << >>
    /\ LinkerCall([fn |-> "link_parsed_lines", res |-> link_parsed_lines(asm_lines)])

CallToNumbers ==
    /\ Len(link_out) = 1 /\ link_out[1].fn = "link_parsed_lines"
    /\ link_out[1].res.ok
    /\ image = << >>
    /\ image' = to_numbers(link_out[1].res.v.instructions)
    /\ UNCHANGED <<main_store, accumulator, instruction_address, instruction,
                   overflow_checks, outcome, prev, steps, first, run,
                   codec_in, codec_out, asm_lines, link_out,
                   parse_in, parse_out>>

NextLink ==
    \/ CallInlineTags
    \/ CallPositionTags
    \/ CallResolve
    \/ CallLinkParsedLines
    \/ CallToNumbers

SpecLink == InitLink /\ [][NextLink]_vars

(***************************************************************************)
(* The linker and to_numbers at the size of the memory: programs of about  *)
(* MEMORY_WORDS real lines, with tag declarations among them and at most   *)
(* one reference to a tag no line declares, and vectors of instructions of *)
(* up to MEMORY_WORDS + MaxExcess entries handed to to_numbers directly.   *)
(***************************************************************************)
\* how far the long programs go below and above MEMORY_WORDS
MaxExcess == 2

\* the most tag declarations of a long program
MaxLongTags == 2

\* n real lines (line k is the data word k, line u a jump to the undeclared
\* tag c when u is not 0) with t tag declarations in front of real line p
LongProgram(n, t, p, u) ==
    LET real(k) == IF k = u THEN InstrLine("Jump", TagRef("c"))
                   ELSE AbsLine(Literal(k))
        tag(j)  == TagLine(IF j = 1 THEN "a" ELSE "b")
    IN  [k \in 1..(n + t) |->
            IF k < p THEN real(k)
            ELSE IF k < p + t THEN tag(k - p + 1)
            ELSE real(k - t)]

LongPrograms ==
    {LongProgram(n, t, p, u) :
        n \in (MEMORY_WORDS - MaxExcess)..(MEMORY_WORDS + MaxExcess),
        t \in 0..MaxLongTags,
        p \in {1, MEMORY_WORDS - MaxExcess, MEMORY_WORDS - MaxExcess + 1},
        u \in {0, 1, MEMORY_WORDS - MaxExcess}}

\* vec![BabyInstruction::Jump(5); n] of test_to_numbers
SameVec(n) == [k \in 1..n |-> [op |-> "Jump", operand |-> 5]]

\* n instructions that differ from entry to entry
MixedVec(n) ==
    [k \in 1..n |->
        CASE k % 4 = 1 -> [op |-> "Negate", operand |-> k]
          [] k % 4 = 2 -> [op |-> "AbsoluteValue", value |-> -k]
          [] k % 4 = 3 -> [op |-> "Stop"]
          [] OTHER -> [op |-> "Store", operand |-> k + 32]]

InitLong ==
    /\ overflow_checks = FALSE
    /\ ParserIdle
    /\ Created(new)
    /\ codec_out = << >>
    /\ link_out = << >>
    /\ image = << >>
    /\ \/ /\ asm_lines \in LongPrograms
          /\ codec_in = [kind |-> "none"]
       \/ /\ asm_lines = << >>
          /\ \E n \in 0..(MEMORY_WORDS + MaxExcess) :
                \/ codec_in = [kind |-> "vec", instrs |-> SameVec(n)]
                \/ codec_in = [kind |-> "vec", instrs |-> MixedVec(n)]

\* BabyInstruction::to_numbers of a vector of instructions
CallToNumbersVec ==
    /\ codec_in.kind = "vec" /\ codec_out = << >>
    /\ CodecCall("to_numbers", to_numbers(codec_in.instrs))

NextLong ==
    \/ CallInlineTags
    \/ CallPositionTags
    \/ CallResolve
    \/ CallLinkParsedLines
    \/ CallToNumbers
    \/ CallToNumbersVec

SpecLong == InitLong /\ [][NextLong]_vars

(***************************************************************************)
(* The parser on its own: parse_line is called on one line of text with    *)
(* one value of the notation flag; parse_out holds the call's result.      *)
(***************************************************************************)
\* operand texts: 10 in the four radixes, a tag, a negative number, a bad
\* hex digit, a number without prefix, a tag name with a blank
OperandTexts ==
    {<<"0", "x", "A">>,
     <<"0", "d", "1", "0">>,
     <<"0", "o", "1", "2">>,
     <<"0", "b", "1", "0", "1", "0">>,
     <<"$", "f", "o", "o">>,
     <<"0", "d", "-", "1", "0">>,
     <<"0", "x", "K">>,
     <<"1", "0">>,
     <<"$", "t", "a", " ", "g">>}

ModernMnemonics ==
    {<<"j", "m", "p", " ">>,
     <<"j", "r", "p", " ">>,
     <<"l", "d", "n", " ">>,
     <<"s", "t", "o", " ">>,
     <<"s", "u", "b", " ">>}

\* lines of modern notation
ModernLines ==
    {m \o o : m \in ModernMnemonics, o \in OperandTexts}
    \cup {<<"c", "m", "p">>, <<"s", "t", "p">>}

\* lines of original notation
OriginalLines ==
    {o \o <<",", " ", "C", "l">> : o \in OperandTexts}
    \cup {<<"A", "d", "d", " ">> \o o \o <<",", " ", "C", "l">> : o \in OperandTexts}
    \cup {<<"-">> \o o \o <<",", " ", "C">> : o \in OperandTexts}
    \cup {<<"c", ",", " ">> \o o : o \in OperandTexts}
    \cup {<<"S", "U", "B", " ">> \o o : o \in OperandTexts}
    \cup {<<"T", "e", "s", "t">>, <<"S", "t", "o", "p">>}

\* tag declarations, abs lines, padded lines of the tests, comments
OtherLines ==
    {<<" ", " ", "j", "m", "p", " ", " ", " ", "0", "x", "A", " ", " ">>,
     <<" ", " ", "0", "x", "A", " ", " ", ",", " ", "C", "l", " ", " ">>,
     <<" ", " ", " ", "a", "b", "s", " ", " ", " ", "0", "x", "A", " ", " ", " ">>,
     <<" ", " ", " ", ":", "f", "o", "o", " ", " ", " ">>,
     <<":", "F", "o", "o">>,
     <<":", "f", "o", " ", "o">>,
     <<":", "l", "o", "o", "p", "_", "s", "t", "a", "r", "t">>,
     <<"a", "b", "s", " ", "$", "t", "a", "g">>,
     <<"a", "b", "s", " ", "0", "d", "-", "1", "0">>,
     <<"A", "B", "S", " ", "0", "b", "1", "0", "1", "0">>,
     <<"a", "b", "s", " ", "0", "o", "9">>,
     <<"s", "u", "b", " ", "0", "x", "A", " ", ";", "f", "o", "o">>,
     <<"s", "t", "p", " ", ";", " ", "e", "n", "d">>,
     <<";", " ", "o", "n", "l", "y">>,
     <<"s", "a", "d", "a", "s", "d", "a", "s", "d">>,
     << >>}

ParserLines == ModernLines \cup OriginalLines \cup OtherLines

InitParse ==
    /\ overflow_checks = FALSE
    /\ Created(new)
    /\ CodecIdle
    /\ AssemblerIdle
    /\ parse_out = << >>
    /\ \E line \in ParserLines, og_notation \in BOOLEAN :
            parse_in = [kind |-> "line", line |-> line,
                        og_notation |-> og_notation]

CallParseLine ==
    /\ parse_in.kind = "line" /\ parse_out = << >>
    /\ parse_out' = <<[fn |-> "parse_line",
                       res |-> parse_line(parse_in.line, parse_in.og_notation)]>>
    /\ UNCHANGED <<main_store, accumulator, instruction_address, instruction,
                   overflow_checks, outcome, prev, steps, first, run,
                   codec_in, codec_out, asm_lines, link_out, image, parse_in>>

NextParse == CallParseLine

SpecParse == InitParse /\ [][NextParse]_vars

(***************************************************************************)
(* Whole programs, as the documentation runs them: the lines of a program  *)
(* are linked (CallLinkParsedLines), turned into an image (CallToNumbers), *)
(* loaded (CallNewWithProgram) and driven by                               *)
(*     loop { model = match model.execute() { Ok(m) => m, Err(_) => break } } *)
(* (ProgExecute); or the image is given as it is; or the model is made by  *)
(* new_example_program.  Until a model is made outcome is "NotCreated".    *)
(* steps counts the execute calls up to MaxProgSteps and stays there, so a *)
(* program that runs forever is a cycle of the machine.  The program of a  *)
(* main function runs on: each step that can be taken is taken.            *)
(***************************************************************************)
\* the count of execute calls stops here
MaxProgSteps == 8

\* the countdown program of the assembler documentation, with its two data
\* words
Countdown(start_value, subtract_val) ==
    << InstrLine("Negate", TagRef("start_value")),
       TagLine("loop_start"),
       InstrLine("Subtract", TagRef("subtract_val")),
       BareLine("Test"),
       InstrLine("Jump", TagRef("loop_start")),
       BareLine("Stop"),
       TagLine("subtract_val"),
       AbsLine(Literal(subtract_val)),
       TagLine("start_value"),
       AbsLine(Literal(start_value)) >>

CountdownProgram == Countdown(-10, 1)

\* the instructions of new_example_program, as lines
ExampleLines ==
    << InstrLine("Negate", Literal(5)), InstrLine("Subtract", Literal(5)),
       InstrLine("Store", Literal(6)), InstrLine("Negate", Literal(6)),
       BareLine("Stop"), AbsLine(Literal(-5)) >>

ProgramLines ==
    {Countdown(a, b) : a \in {-10, -3, -1, 0, 1, WORD_MIN}, b \in {1, 2, -1}}
    \cup {ExampleLines, StartProgram}

\* first words of the images given as they are
RawFirstWords == {0, 5, 33, -1, -5, WORD_MIN, WORD_MAX, 65541, 57344, 16386, 24576}

RawImages ==
    {Image(w0, v1, v2, 0) : w0 \in RawFirstWords, v1 \in {0, -1, 57344},
                            v2 \in {0, 5}}

InitProg ==
    /\ overflow_checks \in BOOLEAN
    /\ ParserIdle
    /\ CodecIdle
    /\ main_store = new.main_store
    /\ accumulator = new.accumulator
    /\ instruction_address = new.instruction_address
    /\ instruction = new.instruction
    /\ prev = new /\ first = new /\ steps = 0
    /\ run = [tag |-> "None"]
    /\ outcome = [tag |-> "NotCreated"]
    /\ link_out = << >>
    /\ \/ asm_lines \in ProgramLines /\ image = << >>
       \/ asm_lines = << >> /\ image \in RawImages
       \/ asm_lines = << >> /\ image = << >>

\* the machine becomes model m
Make(m) ==
    /\ main_store' = m.main_store
    /\ accumulator' = m.accumulator
    /\ instruction_address' = m.instruction_address
    /\ instruction' = m.instruction
    /\ prev' = m
    /\ first' = m
    /\ outcome' = [tag |-> "None"]
    /\ steps' = 0
    /\ UNCHANGED <<overflow_checks, run, codec_in, codec_out,
                   asm_lines, link_out, image,
                   parse_in, parse_out>>

CallNewWithProgram ==
    /\ outcome.tag = "NotCreated"
    /\ image # << >>
    /\ Make(new_with_program(image))

CallNewExampleProgram ==
    /\ outcome.tag = "NotCreated"
    /\ asm_lines = << >> /\ image = << >>
    /\ Make(new_example_program)

\* one turn of the loop: it is left on Err, and a panic ends the thread.
\* steps counts the turns up to MaxProgSteps and alternates below the cap
\* afterwards, so a loop that keeps turning on one machine state is a cycle
\* of ProgExecute steps and never a halt.
ProgExecute ==
    /\ outcome.tag \in {"None", "Ok"}
    /\ LET r == execute(self)
       IN  /\ IF r.tag = "Ok"
                THEN /\ main_store' = r.model.main_store
                     /\ accumulator' = r.model.accumulator
                     /\ instruction_address' = r.model.instruction_address
                     /\ instruction' = r.model.instruction
                     /\ outcome' = [tag |-> "Ok"]
                ELSE /\ UNCHANGED <<main_store, accumulator,
                                    instruction_address, instruction>>
                     /\ outcome' = r
    /\ prev' = self
    /\ steps' = IF steps < MaxProgSteps THEN steps + 1 ELSE MaxProgSteps - 1
    /\ UNCHANGED <<overflow_checks, first, run, codec_in, codec_out,
                   asm_lines, link_out, image,
                   parse_in, parse_out>>

\* linker::link_parsed_lines of the program's lines
LinkProgram ==
    /\ asm_lines # << >>
    /\ CallLinkParsedLines

NextProg ==
    \/ LinkProgram
    \/ CallToNumbers
    \/ CallNewWithProgram
    \/ CallNewExampleProgram
    \/ ProgExecute

SpecProg == InitProg /\ [][NextProg]_vars /\ WF_vars(NextProg)

(***************************************************************************)
(* Vocabulary of the properties: the instruction the last execute call     *)
(* decoded, its 5-bit operand and the memory word the operand points to.   *)
(***************************************************************************)
lastInstr == from_number(prev.instruction)

Ran(op) == steps > 0 /\ lastInstr.op = op

lastOperand == lastInstr.operand

lastOperandValue == prev.main_store[lastOperand]

ReturnedOk == outcome.tag = "Ok"

\* (program counter + by) mod 32 of the model the call was made on
Advanced(by) == (prev.instruction_address + by) % 32

\* the low 16 bits of a word
Low16(w) == w % 65536

\* r is the integer -v (no 32-bit word is the negation of WORD_MIN)
IsNegationOf(r, v) == v # WORD_MIN /\ r = -v

\* the calls of the codec made so far
Decoded == codec_in.kind = "word" /\ Len(codec_out) >= 1

Encoded ==
    codec_in.kind = "instr" /\ Len(codec_out) >= 1 /\ codec_out[1].fn = "to_number"

GotOperand ==
    codec_in.kind = "instr" /\ Len(codec_out) >= 1 /\ codec_out[1].fn = "get_operand"

\* from_number(to_number(i)) has been computed
RoundTripped == Encoded /\ Len(codec_out) = 2

\* to_number(from_number(w)) has been computed
ReEncoded == Decoded /\ Len(codec_out) = 2

\* the opcode table of the instruction set
OpcodeTable(p) ==
    CASE p = 0 -> "Jump"
      [] p = 4 -> "RelativeJump"
      [] p = 2 -> "Negate"
      [] p = 6 -> "Store"
      [] p \in {1, 5} -> "Subtract"
      [] p = 3 -> "SkipNextIfNegative"
      [] p = 7 -> "Stop"

AddressBearing == {"Jump", "RelativeJump", "Negate", "Store", "Subtract"}

\* the instruction the table gives for opcode pattern p and operand a
TableInstr(p, a) ==
    IF OpcodeTable(p) \in AddressBearing
        THEN [op |-> OpcodeTable(p), operand |-> a]
        ELSE [op |-> OpcodeTable(p)]

\* instruction i with its operand cut to 5 bits
Masked(i) ==
    IF i.op \in AddressBearing THEN [i EXCEPT !.operand = @ % 32] ELSE i

\* r is the integer a - b, for 32-bit a and b
IsDifferenceOf(r, a, b) ==
    IF b >= 0 THEN a >= WORD_MIN + b /\ r = a - b
    ELSE a <= WORD_MAX + b /\ r = a - b

(***************************************************************************)
(* C1: executing a state whose instruction register decodes to Store with  *)
(* operand s returns a new state with memory[s] = the old accumulator,     *)
(* every other cell, and the accumulator, unchanged, and the program       *)
(* counter advanced by 1 mod 32.                                           *)
(***************************************************************************)
C1_StoreWritesOperandCell ==
    Ran("Store") =>
        /\ ReturnedOk
        /\ main_store = [prev.main_store EXCEPT ![lastOperand] = prev.accumulator]
        /\ accumulator = prev.accumulator
        /\ instruction_address = Advanced(1)

(***************************************************************************)
(* C2: execute returns Ok(new state) or the Stop signal for every machine  *)
(* state and never aborts.                                                 *)
(***************************************************************************)
C2_ExecuteNeverAborts == outcome.tag \in {"None", "Ok", "Err"}

(***************************************************************************)
(* C3: executing a RelativeJump with operand s sets the program counter to *)
(* (pc + memory[s]) mod 32 for every word value of memory[s], leaves the   *)
(* accumulator and memory unchanged and loads the instruction register     *)
(* from memory at the new program counter.                                 *)
(***************************************************************************)
C3_RelativeJump ==
    Ran("RelativeJump") =>
        /\ ReturnedOk
        /\ instruction_address = Advanced(lastOperandValue % 32)
        /\ accumulator = prev.accumulator
        /\ main_store = prev.main_store
        /\ instruction = Low16(main_store[instruction_address])

(***************************************************************************)
(* C4: executing a Jump with operand s sets the program counter to the low *)
(* 5 bits of memory[s], leaves the accumulator and memory unchanged and    *)
(* loads the instruction register from memory at the new program counter.  *)
(***************************************************************************)
C4_Jump ==
    Ran("Jump") =>
        /\ ReturnedOk
        /\ instruction_address = lastOperandValue % 32
        /\ accumulator = prev.accumulator
        /\ main_store = prev.main_store
        /\ instruction = Low16(main_store[instruction_address])

\* a Jump through a word with bits above the low 5 (90112 = 0x16000) has
\* landed on address 0
C4_Witness ==
    /\ Ran("Jump") /\ ReturnedOk
    /\ lastOperandValue = 90112
    /\ instruction_address = 0

(***************************************************************************)
(* C5: executing a Negate with operand s sets the accumulator to the       *)
(* arithmetic negation of memory[s], leaves memory unchanged and advances  *)
(* the program counter by 1 mod 32.                                        *)
(***************************************************************************)
C5_Negate ==
    Ran("Negate") =>
        /\ ReturnedOk
        /\ IsNegationOf(accumulator, lastOperandValue)
        /\ main_store = prev.main_store
        /\ instruction_address = Advanced(1)

(***************************************************************************)
(* C6: executing a Subtract with operand s sets the accumulator to (old    *)
(* accumulator - memory[s]), leaves memory unchanged and advances the      *)
(* program counter by 1 mod 32; the instruction word with opcode bits 101  *)
(* has the same effect as the one with opcode bits 001 and the same        *)
(* operand.                                                                *)
(***************************************************************************)
C6_Subtract ==
    Ran("Subtract") =>
        /\ ReturnedOk
        /\ IsDifferenceOf(accumulator, prev.accumulator, lastOperandValue)
        /\ main_store = prev.main_store
        /\ instruction_address = Advanced(1)
        /\ execute([prev EXCEPT !.instruction = 8192 + lastOperand])
             = execute([prev EXCEPT !.instruction = 5 * 8192 + lastOperand])

(***************************************************************************)
(* C7: executing SkipNextIfNegative sets the program counter to            *)
(* (pc + 2) mod 32 when the accumulator is strictly negative and to        *)
(* (pc + 1) mod 32 otherwise; the accumulator and memory are unchanged.    *)
(***************************************************************************)
C7_SkipIfNegative ==
    Ran("SkipNextIfNegative") =>
        /\ ReturnedOk
        /\ instruction_address =
             Advanced(IF prev.accumulator < 0 THEN 2 ELSE 1)
        /\ accumulator = prev.accumulator
        /\ main_store = prev.main_store

\* a skip taken at address 31 with a negative accumulator has wrapped to 1
C7_Witness ==
    /\ Ran("SkipNextIfNegative") /\ ReturnedOk
    /\ prev.instruction_address = 31
    /\ prev.accumulator < 0
    /\ instruction_address = 1

(***************************************************************************)
(* C8: executing a state whose instruction register decodes to Stop        *)
(* returns the Stop signal with at = that state's program counter and no   *)
(* new state; the state is unchanged, so a later execute of it returns the *)
(* same signal.                                                            *)
(***************************************************************************)
C8_Stop ==
    Ran("Stop") =>
        /\ outcome = [tag |-> "Err",
                      err |-> [kind |-> "Stop", at |-> prev.instruction_address]]
        /\ self = prev
        /\ execute(self) = outcome

\* the program Negate; Stop has been driven three times: the Stop at
\* address 1 has been executed twice
C8_Witness ==
    /\ Ran("Stop")
    /\ steps = 3
    /\ instruction_address = 1
    /\ from_number(Low16(main_store[0])).op = "Negate"
    /\ from_number(Low16(main_store[1])).op = "Stop"

(***************************************************************************)
(* C9: in every state reachable from new() or new_with_program(m) by       *)
(* successful execute calls, the instruction register is the low 16 bits   *)
(* of memory[program_counter] of that state.                               *)
(***************************************************************************)
C9_InstructionIsFetched ==
    instruction = Low16(main_store[instruction_address])

\* a Store with a non-zero accumulator has overwritten the cell the new
\* program counter points to
C9_Witness ==
    /\ Ran("Store") /\ ReturnedOk
    /\ prev.accumulator # 0
    /\ main_store[instruction_address] = prev.accumulator
    /\ prev.main_store[instruction_address] # prev.accumulator
    /\ Low16(prev.main_store[instruction_address]) # instruction

(***************************************************************************)
(* C10: in every state reachable by execute the program counter is in      *)
(* 0..31 and memory has exactly 32 words, and no execute indexes memory    *)
(* outside 0..31, whatever the memory words hold.                          *)
(***************************************************************************)
C10_AddressesInRange ==
    /\ instruction_address \in 0..31
    /\ DOMAIN main_store = 0..31
    /\ ~(outcome.tag = "Panic" /\ outcome.why = "index")

\* a Store through the most negative word and a RelativeJump or Jump
\* through a word far outside 0..31 have succeeded
C10_Witness ==
    /\ steps > 0 /\ ReturnedOk
    /\ lastInstr.op \in {"Jump", "RelativeJump", "Store"}
    /\ lastOperandValue = WORD_MIN

(***************************************************************************)
(* C11: from_number returns an instruction for every 16-bit word; for a    *)
(* word with opcode pattern p in its top 3 bits, operand a in its low 5    *)
(* bits and anything in bits 5..12 it returns the variant the opcode table *)
(* gives for p (001 and 101 both Subtract), with operand a for the         *)
(* address-bearing variants, so bits 5..12 never influence the result.     *)
(***************************************************************************)
C11_FromNumber ==
    Decoded =>
        LET r == codec_out[1].res
        IN  /\ r.op \in AddressBearing \cup {"SkipNextIfNegative", "Stop"}
            /\ codec_in.instr_len = 16 =>
                    r = TableInstr(codec_in.opcode, codec_in.operand)

C11_Witness ==
    /\ Decoded
    /\ codec_in.instr_len = 16 /\ codec_in.mid = 255
    /\ codec_in.opcode = 5 /\ codec_in.operand = 31
    /\ codec_out[1].res = [op |-> "Subtract", operand |-> 31]

(***************************************************************************)
(* C12 as stated: for every instruction i that is not a Subtract (and not  *)
(* program data), with any operand the type allows,                        *)
(* from_number(to_number(i)) = i.                                          *)
(***************************************************************************)
C12_RoundTrip ==
    (RoundTripped /\ codec_in.instr.op \notin {"Subtract", "AbsoluteValue"})
        => codec_out[2].res = codec_in.instr

(***************************************************************************)
(* C12 amended: for every instruction i that is not a Subtract,            *)
(* from_number(to_number(i)) is i with its operand cut to the low 5 bits:  *)
(* it is i for SkipNextIfNegative, Stop and every operand in 0..31, and    *)
(* the same variant with operand a & 0x1F for an operand a above 31.       *)
(***************************************************************************)
C12_RoundTripMasked ==
    (RoundTripped /\ codec_in.instr.op \notin {"Subtract", "AbsoluteValue"})
        => /\ codec_out[2].res = Masked(codec_in.instr)
           /\ (codec_in.instr.op \in AddressBearing /\ codec_in.instr.operand <= 31)
                => codec_out[2].res = codec_in.instr

C12_Witness ==
    /\ RoundTripped
    /\ codec_in.instr = [op |-> "Store", operand |-> 8197]
    /\ codec_out[2].res = [op |-> "Store", operand |-> 5]

(***************************************************************************)
(* C13: to_number(Subtract(a)) carries one opcode pattern, 001 or 101, the *)
(* same one as for operand 0; from_number(to_number(Subtract(a))) is       *)
(* Subtract(a & 0x1F) for every a; and from_number maps both the 001 word  *)
(* and the 101 word with operand a to Subtract(a).                         *)
(***************************************************************************)
C13_Subtract ==
    /\ (Encoded /\ codec_in.instr.op = "Subtract") =>
            LET pattern == codec_out[1].res \div 8192
            IN  /\ pattern \in {1, 5}
                /\ pattern = to_number([op |-> "Subtract", operand |-> 0]) \div 8192
    /\ (RoundTripped /\ codec_in.instr.op = "Subtract") =>
            codec_out[2].res =
                [op |-> "Subtract", operand |-> codec_in.instr.operand % 32]
    /\ (Decoded /\ codec_in.instr_len = 16 /\ codec_in.opcode \in {1, 5}) =>
            codec_out[1].res = [op |-> "Subtract", operand |-> codec_in.operand]

C13_Witness ==
    /\ RoundTripped
    /\ codec_in.instr = [op |-> "Subtract", operand |-> 33]
    /\ codec_out[1].res = 8192 + 1
    /\ codec_out[2].res = [op |-> "Subtract", operand |-> 1]

(***************************************************************************)
(* C14: get_operand returns a & 0x1F for Jump(a), RelativeJump(a),         *)
(* Negate(a), Store(a) and Subtract(a), and 0 for SkipNextIfNegative, Stop *)
(* and AbsoluteValue(v); the result is always in 0..31.                    *)
(***************************************************************************)
C14_GetOperand ==
    GotOperand =>
        LET i == codec_in.instr
            r == codec_out[1].res
        IN  /\ r \in 0..31
            /\ i.op \in AddressBearing => r = i.operand % 32
            /\ i.op \notin AddressBearing => r = 0

C14_Witness ==
    /\ GotOperand
    /\ codec_in.instr = [op |-> "Jump", operand |-> 33]
    /\ codec_out[1].res = 1

(***************************************************************************)
(* C15: to_number of an address-bearing instruction with operand a is a    *)
(* 16-bit word whose top 3 bits are an opcode of the variant, whose low 5  *)
(* bits are a & 0x1F and whose bits 5..12 are zero; of SkipNextIfNegative  *)
(* and Stop it is the opcode bits alone; of AbsoluteValue(v) it is v.      *)
(***************************************************************************)
C15_ToNumber ==
    Encoded =>
        LET i == codec_in.instr
            r == codec_out[1].res
        IN  CASE i.op \in AddressBearing ->
                    /\ r \in 0..U16_MAX
                    /\ OpcodeTable(r \div 8192) = i.op
                    /\ r % 32 = i.operand % 32
                    /\ (r \div 32) % 256 = 0
              [] i.op = "SkipNextIfNegative" -> r = 3 * 8192
              [] i.op = "Stop" -> r = 7 * 8192
              [] i.op = "AbsoluteValue" -> r = i.value

C15_Witness ==
    /\ Encoded
    /\ codec_in.instr = [op |-> "Store", operand |-> 8197]
    /\ codec_out[1].res = 6 * 8192 + 5

(***************************************************************************)
(* C16: for INSTR_LEN 16 and 8 alike, from_number of the word              *)
(* (p << (INSTR_LEN - 3)) + a, a < 32, is the variant the opcode table     *)
(* gives for p, and to_number of that variant is the word again (for the   *)
(* words an encoding can produce: p other than the Subtract alias 101, and *)
(* a = 0 for the variants without an operand).                             *)
(***************************************************************************)
C16_FieldWidth ==
    /\ (Decoded /\ codec_in.mid = 0) =>
            codec_out[1].res = TableInstr(codec_in.opcode, codec_in.operand)
    /\ (/\ ReEncoded /\ codec_in.mid = 0
        /\ codec_in.opcode # 5
        /\ OpcodeTable(codec_in.opcode) \in AddressBearing \/ codec_in.operand = 0)
            => codec_out[2].res = codec_in.word

(***************************************************************************)
(* C17: when the first n execute calls from the created model all succeed, *)
(* run_loop(n) on it returns the iteration-exceeded outcome with           *)
(* max_iter = n and end_model the model those n calls lead to, next to     *)
(* that same model, having called execute n times.                         *)
(***************************************************************************)
C17_IterationsExceeded ==
    (/\ run.tag = "Called"
     /\ steps = run.max_iter
     /\ outcome.tag \in {"None", "Ok"})
        => /\ run.result.tag = "Returned"
           /\ run.result.err = [kind |-> "IterationExceeded",
                                max_iter |-> run.max_iter, end_model |-> self]
           /\ run.result.model = self
           /\ run.result.calls = run.max_iter

C17_Witness ==
    /\ first = new_example_program
    /\ run.tag = "Called" /\ run.max_iter = 1
    /\ steps = 1 /\ outcome.tag = "Ok"
    /\ run.result.err.kind = "IterationExceeded"
    /\ run.result.err.max_iter = 1
    /\ run.result.model.accumulator = 5
    /\ run.result.model.instruction_address = 1
    /\ run.result.model.instruction = AsU16(first.main_store[1])

(***************************************************************************)
(* C18: when one of the execute calls of run_loop(max_iter) meets a Stop   *)
(* (the k+1-st, k < max_iter), run_loop returns the Stop signal whose at   *)
(* is the program counter of the model the Stop was met in, next to that   *)
(* model, which is the created model after k successful execute calls: no  *)
(* step is applied after the Stop and execute is not called again.         *)
(***************************************************************************)
C18_StopEndsRun ==
    (/\ run.tag = "Called"
     /\ outcome.tag = "Err"
     /\ run.max_iter >= steps)
        => /\ run.result.tag = "Returned"
           /\ run.result.err = [kind |-> "Stop", at |-> instruction_address]
           /\ run.result.err = outcome.err
           /\ run.result.model = self
           /\ run.result.calls <= steps

C18_Witness ==
    /\ run.tag = "Called" /\ run.max_iter = 4
    /\ steps = 3 /\ outcome.tag = "Err"
    /\ self # first
    /\ run.result.err = [kind |-> "Stop", at |-> 2]
    /\ run.result.calls = 3

(***************************************************************************)
(* C19: run_loop(max_iter) returns for every model and every max_iter,     *)
(* after at most max_iter execute calls, and its outcome is Stop or        *)
(* iteration-exceeded.                                                     *)
(***************************************************************************)
C19_RunLoopReturns ==
    run.tag = "Called"
        => /\ run.result.tag = "Returned"
           /\ run.result.err.kind \in {"Stop", "IterationExceeded"}
           /\ run.result.calls <= run.max_iter

Inlined == Len(link_out) >= 1 /\ link_out[1].fn = "inline_tags"

Positioned == Len(link_out) >= 2 /\ link_out[2].fn = "position_tags"

ResolvedOne == Len(link_out) = 3 /\ link_out[3].fn = "resolve"

Linked == Len(link_out) >= 1 /\ link_out[1].fn = "link_parsed_lines"

\* the real lines of the input, in order
RealLines == SelectSeq(asm_lines, IsReal)

\* the number of real lines before line k: the 0-based position of line k
\* in the image when line k is real
RealBefore(k) == Cardinality({j \in 1..(k - 1) : IsReal(asm_lines[j])})

\* line k is a tag declaration immediately followed by a real line
Labels(k) ==
    /\ k \in 1..(Len(asm_lines) - 1)
    /\ asm_lines[k].type = "Tag"
    /\ IsReal(asm_lines[k + 1])

\* line k is a tag declaration that is the last line or is followed by
\* another tag declaration
Dangling(k) ==
    /\ k \in 1..Len(asm_lines)
    /\ asm_lines[k].type = "Tag"
    /\ k = Len(asm_lines) \/ asm_lines[k + 1].type = "Tag"

\* the names some declaration binds to a real line
BoundNames == {asm_lines[k].name : k \in {h \in 1..Len(asm_lines) : Labels(h)}}

\* the position of the last real line labelled t
LastPosition(t) ==
    LET k == CHOOSE h \in 1..Len(asm_lines) :
                /\ Labels(h) /\ asm_lines[h].name = t
                /\ \A g \in (h + 1)..Len(asm_lines) :
                        ~(Labels(g) /\ asm_lines[g].name = t)
    IN  RealBefore(k + 1)

\* the tag name real line i (from 1) refers to, if it refers to one
RefersTo(i, t) == ValueOf(RealLines[i]) = TagRef(t)

\* the real lines that refer to a name no declaration binds
Unbound == {i \in 1..Len(RealLines) :
                /\ ValueOf(RealLines[i]).kind = "Tag"
                /\ ValueOf(RealLines[i]).name \notin BoundNames}

FirstUnbound == CHOOSE i \in Unbound : \A j \in Unbound : i <= j

UnknownTagName(t) ==
    [kind |-> "TagError", error |-> [kind |-> "UnknownTagName", name |-> t]]

(***************************************************************************)
(* C25 as stated: for any sequence of lines, every tag declaration that is *)
(* immediately followed by a real line is bound in the symbol table to the *)
(* number of real lines that precede that line.                            *)
(***************************************************************************)
C25_TagPositions ==
    Positioned =>
        \A k \in 1..Len(asm_lines) :
            Labels(k) =>
                /\ asm_lines[k].name \in DOMAIN link_out[2].res
                /\ link_out[2].res[asm_lines[k].name] = RealBefore(k + 1)

(***************************************************************************)
(* C25 amended: every tag declaration that is immediately followed by a    *)
(* real line puts its name in the symbol table, bound to the number of     *)
(* real lines that precede that line, unless a later declaration of the    *)
(* same name is immediately followed by a real line too: the table holds   *)
(* the position of the last line a name labels.                            *)
(***************************************************************************)
C25_LastTagPositions ==
    Positioned =>
        \A k \in 1..Len(asm_lines) :
            Labels(k) =>
                /\ asm_lines[k].name \in DOMAIN link_out[2].res
                /\ link_out[2].res[asm_lines[k].name]
                        = LastPosition(asm_lines[k].name)
                /\ (\A g \in (k + 1)..Len(asm_lines) :
                        ~(Labels(g) /\ asm_lines[g].name = asm_lines[k].name))
                    => link_out[2].res[asm_lines[k].name] = RealBefore(k + 1)

C25_Witness ==
    /\ Positioned
    /\ asm_lines = << InstrLine("Jump", TagRef("a")), TagLine("a"), TagLine("b"),
                      InstrLine("Negate", TagRef("b")) >>
    /\ link_out[2].res = [t \in {"b"} |-> 1]

(***************************************************************************)
(* C26 as stated: a tag declaration that is the last line, or is followed  *)
(* by another tag declaration, is not in the symbol table, and linking a   *)
(* program that refers to such a tag fails with UnknownTagName of its      *)
(* name.                                                                   *)
(***************************************************************************)
C26_DanglingTags ==
    /\ Positioned =>
            \A k \in 1..Len(asm_lines) :
                Dangling(k) => asm_lines[k].name \notin DOMAIN link_out[2].res
    /\ Linked =>
            \A k \in 1..Len(asm_lines), i \in 1..Len(RealLines) :
                (Dangling(k) /\ RefersTo(i, asm_lines[k].name))
                    => link_out[1].res = [ok |-> FALSE,
                                          err |-> UnknownTagName(asm_lines[k].name),
                                          resolved |-> link_out[1].res.resolved]

(***************************************************************************)
(* C26 amended: a tag declaration that is the last line, or is followed by *)
(* another tag declaration, adds nothing to the symbol table, which holds  *)
(* exactly the names that some declaration binds to a real line; linking a *)
(* program of at most 32 real lines whose first reference to a name        *)
(* outside the table is to the name of such a declaration fails with       *)
(* UnknownTagName of that name.                                            *)
(***************************************************************************)
C26_DanglingTagsUnbound ==
    /\ Positioned => DOMAIN link_out[2].res = BoundNames
    /\ Linked =>
            \A k \in 1..Len(asm_lines) :
                (/\ Dangling(k)
                 /\ Len(RealLines) <= MEMORY_WORDS
                 /\ Unbound # {}
                 /\ RefersTo(FirstUnbound, asm_lines[k].name))
                    => /\ ~link_out[1].res.ok
                       /\ link_out[1].res.err = UnknownTagName(asm_lines[k].name)

C26_Witness ==
    /\ Linked
    /\ asm_lines = << TagLine("a"), TagLine("b"), InstrLine("Jump", TagRef("a")) >>
    /\ link_out[1].res.err = UnknownTagName("a")

(***************************************************************************)
(* C27: resolve_value returns v for Literal(v) with any table, the table's *)
(* position for a reference to a name in the table, and fails with the     *)
(* referenced name when it is absent; resolve_absolute_value and           *)
(* resolve_instruction then fail with UnknownTagName(name); Test and Stop  *)
(* resolve successfully with any table.                                    *)
(***************************************************************************)
C27_ResolveValue ==
    ResolvedOne =>
        LET call == link_out[3]
            tags == link_out[2].res
            val  == IF call.data.type = "Absolute" THEN call.data.value
                    ELSE IF call.data.instr.op \in {"Test", "Stop"} THEN Literal(0)
                    ELSE call.data.instr.operand
        IN  /\ val.kind = "Value" => call.value = Ok(val.v)
            /\ (val.kind = "Tag" /\ val.name \in DOMAIN tags)
                    => call.value = Ok(tags[val.name])
            /\ (val.kind = "Tag" /\ val.name \notin DOMAIN tags)
                    => /\ call.value = Err(val.name)
                       /\ call.res = Err([kind |-> "UnknownTagName",
                                           name |-> val.name])
            /\ (call.data.type = "Instruction"
                    /\ call.data.instr.op \in {"Test", "Stop"})
                    => call.res.ok /\ call.res.v \in {[op |-> "SkipNextIfNegative"],
                                                       [op |-> "Stop"]}

C27_Witness ==
    /\ ResolvedOne
    /\ link_out[2].res = [t \in {"a"} |-> 0]
    /\ link_out[3].data = InstrLine("Subtract", TagRef("c"))
    /\ link_out[3].value = Err("c")
    /\ link_out[3].res = Err([kind |-> "UnknownTagName", name |-> "c"])

\* every reference of the program is to a name some declaration binds, and
\* the program fits the memory
AllBound == Unbound = {} /\ Len(RealLines) <= MEMORY_WORDS

\* the operand, or the data value, of a linked instruction
LinkedValue(instr) ==
    IF instr.op = "AbsoluteValue" THEN instr.value ELSE instr.operand

(***************************************************************************)
(* C28 as stated: in a program all of whose references are to tags that    *)
(* label real lines, a reference in real line i to a tag that labels real  *)
(* line j resolves to j, whether j is before or after i, and linking the   *)
(* program succeeds.                                                       *)
(***************************************************************************)
C28_ForwardReferences ==
    (Linked /\ AllBound) =>
        /\ link_out[1].res.ok
        /\ \A i \in 1..Len(RealLines), k \in 1..Len(asm_lines) :
                (Labels(k) /\ RefersTo(i, asm_lines[k].name))
                    => LinkedValue(link_out[1].res.v.instructions[i])
                            = RealBefore(k + 1)

(***************************************************************************)
(* C28 amended: in a program of at most 32 real lines all of whose         *)
(* references are to tags that label real lines, linking succeeds and a    *)
(* reference in real line i to a tag whose last labelled real line is j    *)
(* resolves to j, whether j is before i, after i, or i itself.             *)
(***************************************************************************)
C28_ForwardReferencesLast ==
    (Linked /\ AllBound) =>
        /\ link_out[1].res.ok
        /\ Len(link_out[1].res.v.instructions) = Len(RealLines)
        /\ \A i \in 1..Len(RealLines), t \in BoundNames :
                RefersTo(i, t)
                    => LinkedValue(link_out[1].res.v.instructions[i])
                            = LastPosition(t)

C28_Witness ==
    /\ Linked
    /\ asm_lines = << TagLine("a"), InstrLine("Jump", TagRef("a")),
                      InstrLine("Negate", TagRef("b")), TagLine("b"),
                      InstrLine("Jump", TagRef("a")) >>
    /\ link_out[1].res.ok
    /\ link_out[1].res.v.instructions
            = << [op |-> "Jump", operand |-> 0], [op |-> "Negate", operand |-> 2],
                 [op |-> "Jump", operand |-> 0] >>

(***************************************************************************)
(* C29: when a program of at most 32 real lines refers to one or more tags *)
(* that are not in the symbol table, link_parsed_lines returns only        *)
(* TagError UnknownTagName with the name the first such line refers to:    *)
(* resolve is not called for any later line and no list of instructions is *)
(* returned.                                                               *)
(***************************************************************************)
C29_FirstUnknownTag ==
    (Linked /\ Len(RealLines) <= MEMORY_WORDS /\ Unbound # {}) =>
        link_out[1].res =
            [ok |-> FALSE,
             err |-> UnknownTagName(ValueOf(RealLines[FirstUnbound]).name),
             resolved |-> FirstUnbound]

C29_Witness ==
    /\ Linked
    /\ asm_lines = << InstrLine("Negate", TagRef("b")),
                      InstrLine("Subtract", TagRef("c")), BareLine("Stop") >>
    /\ link_out[1].res.err = UnknownTagName("b")
    /\ link_out[1].res.resolved = 1

\* the word the image must hold for real line i (from 1), given the value
\* r its expression resolves to
IsWordOf(w, line, r) ==
    IF line.type = "Absolute" THEN w = r
    ELSE /\ w \in 0..U16_MAX
         /\ OpcodeTable(w \div 8192)
                = (IF line.instr.op = "Test" THEN "SkipNextIfNegative"
                   ELSE line.instr.op)
         /\ w % 32 = r % 32
         /\ (w \div 32) % 256 = 0

\* the value the expression of a real line stands for
ValueFor(line) ==
    LET val == ValueOf(line)
    IN  IF val.kind = "Value" THEN val.v ELSE LastPosition(val.name)

(***************************************************************************)
(* C30: for a program that links, the image made by to_numbers of the      *)
(* linked instructions holds at index i the word of the i-th real line:    *)
(* for an instruction line the opcode bits of the variant, low 5 bits      *)
(* equal to the resolved operand mod 32 and bits 5..12 zero, for every     *)
(* literal or tag value; for a data line the resolved value unchanged.     *)
(***************************************************************************)
C30_LinkedImage ==
    (Linked /\ image # << >>) =>
        /\ DOMAIN image = 0..(MEMORY_WORDS - 1)
        /\ \A i \in 1..Len(RealLines) :
                IsWordOf(image[i - 1], RealLines[i], ValueFor(RealLines[i]))

C30_Witness ==
    /\ Linked
    /\ asm_lines = StartProgram
    /\ image # << >>
    /\ image[0] = to_number([op |-> "Negate", operand |-> 2])
    /\ image[0] = 2 * 8192 + 2
    /\ image[1] = 0
    /\ image[2] = 5

(***************************************************************************)
(* Vocabulary of the properties of whole programs.                         *)
(***************************************************************************)
\* a model has been made with new_with_program of the image
Loaded == image # << >> /\ outcome.tag # "NotCreated"

\* the loop driving the model has been left: execute returned an error
Terminated == outcome.tag = "Err"

\* the image of the example program, placed from address 0
ExampleImage == to_numbers(link_parsed_lines(ExampleLines).v.instructions)

(***************************************************************************)
(* C21: new_with_program(m) is, for every image m, the model with memory   *)
(* m, accumulator 0, program counter 0 and as instruction register the     *)
(* instruction field (the low 16 bits) of m[0].                            *)
(***************************************************************************)
C21_NewWithProgram ==
    (Loaded /\ steps = 0) =>
        /\ main_store = image
        /\ accumulator = 0
        /\ instruction_address = 0
        /\ instruction = Low16(image[0])
        /\ instruction \in 0..INSTR_MASK

C21_Witness ==
    /\ Loaded /\ steps = 0
    /\ image[0] = -5 /\ image[1] = 57344 /\ image[2] = 5
    /\ main_store = image
    /\ instruction = 65531

(***************************************************************************)
(* C22: the example program [Negate(5), Subtract(5), Store(6), Negate(6),  *)
(* Stop, AbsoluteValue(-5)], placed in memory from address 0 and run until *)
(* the engine terminates, leaves the accumulator equal to 5.               *)
(***************************************************************************)
C22_ExampleLeaves5 ==
    (Loaded /\ image = ExampleImage /\ Terminated) => accumulator = 5

(***************************************************************************)
(* C23: driving new_example_program() with execute until it returns an     *)
(* error ends with the Stop signal, and the accumulator then holds 10.     *)
(***************************************************************************)
C23_ExampleAdds5To5 ==
    (/\ image = << >>
     /\ first = new_example_program
     /\ outcome.tag \notin {"NotCreated", "None", "Ok"})
        => /\ outcome.tag = "Err"
           /\ outcome.err.kind = "Stop"
           /\ accumulator = 10

(***************************************************************************)
(* C24: the countdown program of the assembler documentation, linked,      *)
(* converted with to_numbers, loaded with new_with_program and driven by   *)
(* repeated execute, eventually returns the Stop signal with a negative    *)
(* accumulator.                                                            *)
(***************************************************************************)
C24_CountdownStops ==
    (asm_lines = CountdownProgram) ~> (Terminated /\ accumulator < 0)

(***************************************************************************)
(* Programs at the size of the memory.                                     *)
(***************************************************************************)
MemoryExceedingError(n) == [kind |-> "MemoryExceedingError", linked_size |-> n]

\* to_numbers was called on the vector of the input
Numbered ==
    /\ codec_in.kind = "vec"
    /\ Len(codec_out) = 1 /\ codec_out[1].fn = "to_numbers"

(***************************************************************************)
(* C31: linking rejects every program of more than 32 real lines with      *)
(* MemoryExceedingError whose linked_size is the number of real lines, and *)
(* never gives that error for a program of 32 or fewer real lines; tag     *)
(* declaration lines do not count.                                         *)
(***************************************************************************)
C31_ProgramTooLarge ==
    Linked =>
        IF Len(RealLines) > MEMORY_WORDS
            THEN /\ ~link_out[1].res.ok
                 /\ link_out[1].res.err = MemoryExceedingError(Len(RealLines))
            ELSE \/ link_out[1].res.ok
                 \/ link_out[1].res.err.kind # "MemoryExceedingError"

C31_Witness ==
    /\ Linked
    /\ asm_lines = LongProgram(MEMORY_WORDS + 1, 2, 1, 0)
    /\ Len(asm_lines) = 35
    /\ link_out[1].res.err = MemoryExceedingError(33)

(***************************************************************************)
(* C32: to_numbers(list) is an array of exactly 32 words, word i being     *)
(* to_number(list[i]) for i below min(len(list), 32) and 0 from len(list)  *)
(* to 31; a list longer than 32 is cut to its first 32 entries.            *)
(***************************************************************************)
C32_ToNumbers ==
    Numbered =>
        LET list  == codec_in.instrs
            words == codec_out[1].res
        IN  /\ DOMAIN words = 0..31
            /\ \A i \in 0..31 :
                    words[i] = IF i < Len(list) THEN to_number(list[i + 1])
                               ELSE 0

C32_Witness ==
    /\ Numbered
    /\ codec_in.instrs = MixedVec(MEMORY_WORDS + 1)
    /\ codec_out[1].res[0] = 16385
    /\ codec_out[1].res[1] = -2
    /\ codec_out[1].res[31] = to_number([op |-> "Store", operand |-> 64])

(***************************************************************************)
(* C40: the size check of link_tags comes before any tag is resolved: a    *)
(* program of more than 32 real lines that also refers to an undeclared    *)
(* tag is rejected with MemoryExceedingError, never with TagError, and     *)
(* none of its lines is resolved.                                          *)
(***************************************************************************)
C40_SizeBeforeTags ==
    (Linked /\ Len(RealLines) > MEMORY_WORDS /\ Unbound # {}) =>
        /\ ~link_out[1].res.ok
        /\ link_out[1].res.err.kind = "MemoryExceedingError"
        /\ link_out[1].res.resolved = 0

C40_Witness ==
    /\ Linked
    /\ asm_lines = LongProgram(MEMORY_WORDS + 1, 1, 1, 1)
    /\ ValueOf(RealLines[1]) = TagRef("c")
    /\ link_out[1].res.err.kind = "MemoryExceedingError"
    /\ link_out[1].res.resolved = 0

(***************************************************************************)
(* Names declared more than once.                                          *)
(***************************************************************************)
\* the positions of the real lines labelled t
LabelledPositions(t) ==
    {RealBefore(k + 1) : k \in {h \in 1..Len(asm_lines) :
                                    Labels(h) /\ asm_lines[h].name = t}}

\* t labels two different real lines
DeclaredTwice(t) == Cardinality(LabelledPositions(t)) >= 2

\* the position of the later, or latest, of the real lines labelled t
LaterPosition(t) ==
    CHOOSE q \in LabelledPositions(t) : \A r \in LabelledPositions(t) : r <= q

(***************************************************************************)
(* C35: when one tag name labels two different real lines, the symbol      *)
(* table holds the position of the later labelled line, and every          *)
(* reference to the name, before or after either declaration, resolves to  *)
(* the later position.                                                     *)
(***************************************************************************)
C35_LaterDeclaration ==
    \A t \in BoundNames :
        DeclaredTwice(t) =>
            /\ Positioned => link_out[2].res[t] = LaterPosition(t)
            /\ (ResolvedOne /\ ValueOf(link_out[3].data) = TagRef(t))
                    => /\ link_out[3].value = Ok(LaterPosition(t))
                       /\ link_out[3].res.ok
                       /\ LinkedValue(link_out[3].res.v) = LaterPosition(t)
            /\ (Linked /\ link_out[1].res.ok)
                    => /\ link_out[1].res.v.tag_values[t] = LaterPosition(t)
                       /\ \A i \in 1..Len(RealLines) :
                            RefersTo(i, t)
                                => LinkedValue(link_out[1].res.v.instructions[i])
                                        = LaterPosition(t)

C35_Witness ==
    /\ ResolvedOne
    /\ asm_lines = << TagLine("a"), InstrLine("Jump", TagRef("a")),
                      TagLine("a"), InstrLine("Jump", TagRef("a")) >>
    /\ link_out[2].res = [t \in {"a"} |-> 1]
    /\ link_out[3].line = 1
    /\ link_out[3].res = Ok([op |-> "Jump", operand |-> 1])

(***************************************************************************)
(* The blank machine, the handlers behind execute, and the ends of         *)
(* run_loop.                                                               *)
(***************************************************************************)
\* the instructions dispatch_instruction has a method for
Handled == {"Jump", "RelativeJump", "Negate", "Store", "Subtract",
            "SkipNextIfNegative"}

\* what the method of instruction op returns on model m for the value v
MethodResult(m, op, v) ==
    CASE op = "Jump" -> jump(m, v)
      [] op = "RelativeJump" -> relative_jump(m, v)
      [] op = "Negate" -> negate(m, v)
      [] op = "Store" -> store(m, v)
      [] op = "Subtract" -> subtract(m, v)
      [] op = "SkipNextIfNegative" -> test(m)

\* what the method of instruction op returns on the model the last execute
\* was called on
HandlerResult(op) == MethodResult(prev, op, lastOperandValue)

IterationExceeded(n, m) ==
    [kind |-> "IterationExceeded", max_iter |-> n, end_model |-> m]

(***************************************************************************)
(* C34: BabyModel::new() has all 32 memory words, the accumulator, the     *)
(* program counter and the instruction register equal to 0 and is a fixed  *)
(* point of execute: every execute from it succeeds as a jump back to      *)
(* address 0 and returns a state equal to new(), Stop is never returned,   *)
(* and run_loop(n) from new() yields iteration-exceeded for every n.       *)
(***************************************************************************)
C34_NewIsFixedPoint ==
    (first = new) =>
        /\ first.main_store = [a \in 0..31 |-> 0]
        /\ first.accumulator = 0
        /\ first.instruction_address = 0
        /\ first.instruction = 0
        /\ self = first
        /\ outcome.tag \in {"None", "Ok"}
        /\ steps > 0 => /\ outcome.tag = "Ok"
                        /\ lastInstr = [op |-> "Jump", operand |-> 0]
                        /\ prev = first
        /\ run.tag = "Called" =>
                run.result = [tag |-> "Returned", model |-> first,
                              err |-> IterationExceeded(run.max_iter, first),
                              calls |-> run.max_iter]

C34_Witness ==
    /\ first = new
    /\ steps = 2 /\ outcome.tag = "Ok"
    /\ instruction_address = 0 /\ instruction = 0 /\ accumulator = 0
    /\ run.tag = "Called" /\ run.max_iter = 3
    /\ run.result.err.kind = "IterationExceeded"

(***************************************************************************)
(* C36: no 16-bit instruction word decodes to AbsoluteValue, so in a run   *)
(* driven by execute the catch-all arm of dispatch_instruction is never    *)
(* taken: every successful execute is the effect of exactly one of the six *)
(* handlers jump, relative_jump, negate, store, subtract, test.            *)
(***************************************************************************)
C36_NoCatchAll ==
    (steps > 0) =>
        /\ lastInstr.op # "AbsoluteValue"
        /\ ReturnedOk => /\ lastInstr.op \in Handled
                         /\ self = HandlerResult(lastInstr.op)

C36_Witness ==
    /\ steps = 1 /\ ReturnedOk
    /\ prev.instruction = 5 * 8192 + 2
    /\ lastInstr = [op |-> "Subtract", operand |-> 2]
    /\ prev.main_store[2] = 33
    /\ accumulator = -33

(***************************************************************************)
(* C38: run_loop(max_iter) returns Stop only if one of its first max_iter  *)
(* execute calls meets a Stop: a program that needs k successful steps to  *)
(* reach its Stop gives iteration-exceeded for max_iter = k, although the  *)
(* returned state's instruction register holds the Stop, and Stop for      *)
(* max_iter = k + 1; run_loop(0) returns iteration-exceeded with the       *)
(* initial state unchanged and max_iter 0.                                 *)
(***************************************************************************)
C38_StopWithinMaxIter ==
    (run.tag = "Called") =>
        /\ run.max_iter = 0 =>
                run.result = [tag |-> "Returned", model |-> first,
                              err |-> IterationExceeded(0, first), calls |-> 0]
        /\ (/\ outcome.tag \in {"None", "Ok"}
            /\ from_number(instruction).op = "Stop"
            /\ run.max_iter = steps) =>
                /\ run.result.tag = "Returned"
                /\ run.result.err = IterationExceeded(steps, self)
                /\ run.result.model = self
                /\ run.result.calls = steps
        /\ (/\ outcome.tag \in {"None", "Ok"}
            /\ from_number(instruction).op = "Stop"
            /\ run.max_iter = steps + 1) =>
                /\ run.result.tag = "Returned"
                /\ run.result.err = [kind |-> "Stop", at |-> instruction_address]
                /\ run.result.model = self
                /\ run.result.calls = steps + 1
        /\ (run.result.tag = "Returned" /\ run.result.err.kind = "Stop") =>
                /\ run.result.calls \in 1..run.max_iter
                /\ from_number(run.result.model.instruction).op = "Stop"

C38_Witness ==
    /\ run.tag = "Called" /\ run.max_iter = 2
    /\ steps = 2 /\ outcome.tag = "Ok"
    /\ self # first
    /\ instruction = 57344
    /\ run.result.err = IterationExceeded(2, self)

(***************************************************************************)
(* C39: for every 16-bit word w whose bits 5..12 are zero, whose opcode    *)
(* bits are not 101 and whose low 5 bits are zero when the opcode is 011   *)
(* or 111, to_number(from_number(w)) = w; for every other 16-bit word      *)
(* to_number(from_number(w)) is the canonical word that decodes to the     *)
(* same instruction as w.                                                  *)
(***************************************************************************)
C39_ReEncode ==
    ReEncoded =>
        LET w == codec_in.word
            r == codec_out[2].res
            canonical == /\ (w \div 32) % 256 = 0
                         /\ w \div 8192 # 5
                         /\ w \div 8192 \in {3, 7} => w % 32 = 0
        IN  /\ w \in 0..U16_MAX
            /\ canonical => r = w
            /\ ~canonical => /\ r # w
                             /\ r \in 0..U16_MAX
                             /\ from_number(r) = from_number(w)
                             /\ to_number(from_number(r)) = r

C39_Witness ==
    /\ ReEncoded
    /\ codec_in = WordInput(16, 5, 128, 2)
    /\ codec_in.word = 40962 + 4096
    /\ codec_out[1].res = [op |-> "Subtract", operand |-> 2]
    /\ codec_out[2].res = 8194

\* dispatch_instruction was called by hand
Dispatched == run.tag = "Dispatched"

(***************************************************************************)
(* C37: dispatch_instruction(instr, v) returns, for each of Jump,          *)
(* RelativeJump, Negate, Store, Subtract and SkipIfNegative, Ok of exactly *)
(* the state the matching method (jump(v), relative_jump(v), negate(v),    *)
(* store(v), subtract(v), test()) returns on the same model; the operand   *)
(* embedded in instr has no influence on the result.                       *)
(***************************************************************************)
C37_DispatchIsMethod ==
    (Dispatched /\ run.instr.op \in Handled) =>
        LET expected == MethodResult(run.model, run.instr.op, run.operand_value)
        IN  /\ IF IsPanic(expected) THEN run.result.tag = "Panic"
               ELSE run.result = [tag |-> "Ok", model |-> expected]
            /\ run.instr.op \in AddressBearing =>
                    \A a \in 0..31 :
                        dispatch_instruction(run.model,
                                             [run.instr EXCEPT !.operand = a],
                                             run.operand_value) = run.result

C37_Witness ==
    /\ Dispatched
    /\ run.instr = [op |-> "Store", operand |-> 31]
    /\ run.operand_value = 33
    /\ run.model.accumulator = -16384
    /\ run.model.main_store[1] = 0
    /\ run.model.main_store[31] = 0
    /\ run.result.tag = "Ok"
    /\ run.result.model.main_store[1] = -16384
    /\ run.result.model.main_store[31] = 0

\* parse_line was called on the line of the input
Parsed == parse_in.kind = "line" /\ Len(parse_out) = 1

\* the line as parse_line looks at it
Prepared == strip_comments(to_lowercase(trim(parse_in.line)))

(***************************************************************************)
(* C33: parse_line(line, og_notation) parses an instruction line with the  *)
(* modern-notation parser (jmp, jrp, ldn, sto, sub, cmp, stp) when         *)
(* og_notation is false and with the original-notation parser when it is   *)
(* true; tag declarations and abs lines are parsed the same way for both   *)
(* values of the flag.                                                     *)
(***************************************************************************)
C33_NotationFlag ==
    Parsed =>
        IF starts_with(Prepared, <<":">>) \/ starts_with(Prepared, <<"a", "b", "s", " ">>)
            THEN /\ parse_out[1].res
                        = parse_line(parse_in.line, ~parse_in.og_notation)
                 /\ parse_out[1].res.ok
                        => parse_out[1].res.v.type \in {"Tag", "Absolute"}
            ELSE parse_out[1].res
                    = (IF parse_in.og_notation
                           THEN parse_instruction_ogn(Prepared)
                           ELSE parse_instruction(Prepared))

====
